---- MODULE Spec2Model ----
(***************************************************************************)
(* A model of the vault transaction hooks of yearnX:                       *)
(*   useVaultWithdraw  (src/unnamed/part_002)                              *)
(*   useVaultDeposit   (src/unnamed/part_001, lines 388-819)               *)
(*   useApprove        (src/unnamed/part_001, lines 162-386)               *)
(* One hook instance is mounted per behaviour.  Its arguments and cached   *)
(* reads are chosen by Init; onDeposit / onWithdraw may be invoked twice,   *)
(* and the steps of the two invocations interleave at the awaits.          *)
(* The approval hook has a specification of its own, ApproveSpec: there    *)
(* the hook is also re-rendered with new arguments between the steps.      *)
(***************************************************************************)
EXTENDS Integers, Sequences, FiniteSets, TLC

VARIABLES
    mounted,        \* which hook this instance is: "withdraw", "deposit", "approve", "portals", "list"
    wargs,          \* useVaultWithdraw: args
    wreads,         \* useVaultWithdraw: data of the useReadContract hooks
    isWithdrawing,  \* useVaultWithdraw: useState(false)
    wcall,          \* useVaultWithdraw: one record per onWithdraw invocation
    dargs,          \* useVaultDeposit: args
    denv,           \* useVaultDeposit: useWeb3() context (isWalletSafe)
    dreads,         \* useVaultDeposit: data of the useReadContract hooks
    isDepositing,   \* useVaultDeposit: useState(false)
    dcall,          \* useVaultDeposit: one record per onDeposit invocation
    aargs,          \* useApprove: args
    allowance,      \* useApprove: data of the allowance useReadContract
    permitSignature,\* useApprove: useState(undefined), what the signature binds
    permitAllowance,\* useApprove: useState(undefined)
    isApproving,    \* useApprove: useState(false)
    acall,          \* useApprove: one record per onApprove invocation
    portals,        \* usePortalsSolver: configuration and data of its reads
    sort            \* VaultsListHead: the sort props and the clicks made so far

vars == <<mounted, wargs, wreads, isWithdrawing, wcall,
          dargs, denv, dreads, isDepositing, dcall,
          aargs, allowance, permitSignature, permitAllowance, isApproving, acall,
          portals, sort>>

wvars == <<wargs, wreads, isWithdrawing, wcall>>
dvars == <<dargs, denv, dreads, isDepositing, dcall>>
avars == <<aargs, allowance, permitSignature, permitAllowance, isApproving, acall>>

----------------------------------------------------------------------------
(* Bounds of the model.                                                    *)

MaxAmount == 2
MaxShares == 2
MaxPps == 2
MaxDecimals == 1
MaxClicks == 3
MaxPermits == 2

\* The invocations of onDeposit / onWithdraw that may be in flight together.
Calls == {"first", "second"}

----------------------------------------------------------------------------
(* Values.  A read that has not resolved (data === undefined) is the empty *)
(* sequence, a resolved read is <<value>>.                                 *)

Undefined == <<>>

Maybe(S) == {Undefined} \cup {<<v>> : v \in S}

\* toBigInt(undefined) is 0n, toBigInt(v) is v.
toBigInt(v) == IF v = Undefined THEN 0 ELSE v[1]

\* decodeAsBigInt of a readContracts entry: the result, 0n for a failed entry.
decodeAsBigInt(v) == IF v = Undefined THEN 0 ELSE v[1]

\* Addresses are names; "invalid" is a malformed address, "zero" the zero
\* address, "eth" the 0xEeee... placeholder of the chain-native asset.
isAddress(a) == a \notin {"invalid", "zero", "none"}

isEthAddress(a) == a = "eth"

isZeroAddress(a) == a = "zero"

RECURSIVE Pow10(_)
Pow10(d) == IF d = 0 THEN 1 ELSE 10 * Pow10(d - 1)

NoTx == <<>>

----------------------------------------------------------------------------
(* useVaultWithdraw                                                        *)

\* The scenario of the design notes: price-per-share 1.05, 100 underlying
\* requested, 95.5 shares owned, 1% tolerance (two decimals).
ExampleWithdraw ==
    [amountToWithdraw |-> 10000, decimals |-> 2, pricePerShare |-> 105,
     shareOf |-> 9550, redeemTolerance |-> 100]

Tolerances == {-1, 0, 5000, 10000, 10001}

Slippages == {-1, 50, 10001}

WithdrawTokens == {"erc20", "eth", "invalid"}

Vaults == {"vault", "invalid"}

\* Malformed or native addresses are tried with one amount and tolerance.
WAddressesOk(a) ==
    \/ a.tokenToWithdraw = "erc20" /\ a.vault = "vault"
    \/ a.amountToWithdraw = 1 /\ a.redeemTolerance = 0

WCallIdle ==
    [pc |-> "idle", result |-> "none", tx |-> NoTx, sent |-> 0, reads |-> 0,
     onSuccess |-> 0, onFailure |-> 0]

\* The cached reads a LEGACY hook can hold: maxWithdraw is disabled, decimals
\* is enabled once shareOf is known, pricePerShare once decimals is known.
WReadsLegacy ==
    {r \in [maxWithdrawForUser : {Undefined}, shareOf : Maybe(0..MaxShares),
            decimals : Maybe(0..MaxDecimals), pps : Maybe(0..MaxPps)] :
        /\ r.shareOf = Undefined => r.decimals = Undefined
        /\ r.decimals = Undefined => r.pps = Undefined}

\* The cached reads an ERC-4626 hook can hold: decimals and pricePerShare are
\* disabled.
WReads4626 ==
    [maxWithdrawForUser : Maybe(0..MaxAmount), shareOf : Maybe(0..MaxShares),
     decimals : {Undefined}, pps : {Undefined}]

WArgsLegacy ==
    {a \in [version : {"LEGACY"}, tokenToWithdraw : WithdrawTokens, vault : Vaults,
     amountToWithdraw : 0..MaxAmount, redeemTolerance : Tolerances,
     minOutSlippage : {Undefined}] : WAddressesOk(a)}

WArgs4626 ==
    {a \in [version : {"ERC-4626"}, tokenToWithdraw : WithdrawTokens, vault : Vaults,
     amountToWithdraw : 0..MaxAmount, redeemTolerance : Tolerances,
     minOutSlippage : {<<s>> : s \in Slippages}] : WAddressesOk(a)}

canWithdraw_NoCeiling ==
    IF isEthAddress(wargs.tokenToWithdraw) THEN FALSE
    ELSE /\ isAddress(wargs.tokenToWithdraw)
         /\ isAddress(wargs.vault)
         /\ wargs.amountToWithdraw > 0

canWithdraw ==
    IF isEthAddress(wargs.tokenToWithdraw) THEN FALSE
    ELSE IF wargs.version = "LEGACY"
         THEN /\ isAddress(wargs.tokenToWithdraw)
              /\ isAddress(wargs.vault)
              /\ wargs.amountToWithdraw > 0
    ELSE IF ~isAddress(wargs.tokenToWithdraw) \/ ~isAddress(wargs.vault) THEN FALSE
    ELSE IF wargs.amountToWithdraw <= 0 THEN FALSE
    ELSE IF wargs.amountToWithdraw > toBigInt(wreads.maxWithdrawForUser) THEN FALSE
    ELSE TRUE

redeemToleranceInvalid_NoUpperBound(a) == a.redeemTolerance < 0

redeemToleranceInvalid(a) == a.redeemTolerance < 0 \/ a.redeemTolerance > 10000

withdrawSlippageInvalid(a) ==
    toBigInt(a.minOutSlippage) < 0 \/ toBigInt(a.minOutSlippage) > 10000

convertToShareLegacy_DivideFirst(amount, decimals, pricePerShare) ==
    (amount \div toBigInt(pricePerShare)) * Pow10(toBigInt(decimals))

\* (args.amountToWithdraw * 10n ** toBigInt(decimals)) / toBigInt(pps?.pricePerShare)
convertToShareLegacy(amount, decimals, pricePerShare) ==
    (amount * Pow10(toBigInt(decimals))) \div toBigInt(pricePerShare)

toleranceOf(balance, redeemTolerance) == (balance * redeemTolerance) \div 10000

isAskingToWithdrawAll_Inclusive(balance, shares, redeemTolerance) ==
    balance - shares <= toleranceOf(balance, redeemTolerance)

isAskingToWithdrawAll(balance, shares, redeemTolerance) ==
    balance - shares < toleranceOf(balance, redeemTolerance)

LegacyWithdrawTx_NoClamp(a, r) ==
    LET shares == convertToShareLegacy(a.amountToWithdraw, r.decimals, r.pps)
        balance == toBigInt(r.shareOf)
        all == isAskingToWithdrawAll(balance, shares, a.redeemTolerance)
    IN  [fn |-> "withdraw", amount |-> shares,
         shares |-> shares, balance |-> balance, isAskingToWithdrawAll |-> all]

\* The call withdrawFromVault receives on the LEGACY path.
LegacyWithdrawTx(a, r) ==
    LET shares == convertToShareLegacy(a.amountToWithdraw, r.decimals, r.pps)
        balance == toBigInt(r.shareOf)
        all == isAskingToWithdrawAll(balance, shares, a.redeemTolerance)
    IN  [fn |-> "withdraw", amount |-> IF all THEN balance ELSE shares,
         shares |-> shares, balance |-> balance, isAskingToWithdrawAll |-> all]

\* The call withdrawFrom4626Vault receives, from the two live reads.
Withdraw4626Tx(a, convertToShare, availableShares) ==
    LET all == isAskingToWithdrawAll(availableShares, convertToShare, a.redeemTolerance)
    IN  [fn |-> IF all THEN "redeem" ELSE "withdraw",
         amount |-> IF all THEN availableShares ELSE a.amountToWithdraw,
         shares |-> convertToShare, balance |-> availableShares,
         isAskingToWithdrawAll |-> all]

WFinish(c, res) == wcall' = [wcall EXCEPT ![c].pc = "done", ![c].result = res]

\* if (!canWithdraw) return false; set_isWithdrawing(true); await toWagmiProvider
WithdrawEnter(c) ==
    /\ mounted = "withdraw"
    /\ wcall[c].pc = "idle"
    /\ IF ~canWithdraw
       THEN /\ WFinish(c, "false")
            /\ UNCHANGED isWithdrawing
       ELSE /\ isWithdrawing' = TRUE
            /\ wcall' = [wcall EXCEPT ![c].pc = "toWagmiProvider"]
    /\ UNCHANGED <<mounted, portals, sort, wargs, wreads, dvars, avars>>

\* toWagmiProvider resolved: provider check, redeemTolerance check, then the
\* LEGACY computation and send, or the minOutSlippage check and the reads.
WithdrawProvider(c) ==
    /\ mounted = "withdraw"
    /\ wcall[c].pc = "toWagmiProvider"
    /\ \E providerOk \in BOOLEAN :
        IF ~providerOk
        THEN /\ isWithdrawing' = FALSE
             /\ WFinish(c, "false")
        ELSE IF redeemToleranceInvalid(wargs)
        THEN /\ WFinish(c, "thrown")
             /\ UNCHANGED isWithdrawing
        ELSE IF wargs.version = "LEGACY"
        THEN IF toBigInt(wreads.pps) = 0
             THEN \* BigInt division by zero: RangeError
                  /\ WFinish(c, "thrown")
                  /\ UNCHANGED isWithdrawing
             ELSE /\ wcall' = [wcall EXCEPT ![c].pc = "withdrawFromVault",
                                            ![c].sent = @ + 1,
                                            ![c].tx = <<LegacyWithdrawTx(wargs, wreads)>>]
                  /\ UNCHANGED isWithdrawing
        ELSE IF withdrawSlippageInvalid(wargs)
        THEN /\ WFinish(c, "thrown")
             /\ UNCHANGED isWithdrawing
        ELSE /\ wcall' = [wcall EXCEPT ![c].pc = "readContracts"]
             /\ UNCHANGED isWithdrawing
    /\ UNCHANGED <<mounted, portals, sort, wargs, wreads, dvars, avars>>

\* withdrawFromVault resolved (it reports a failure, it does not throw).
WithdrawLegacySettle(c) ==
    /\ mounted = "withdraw"
    /\ wcall[c].pc = "withdrawFromVault"
    /\ \E isSuccessful \in BOOLEAN :
        wcall' = [wcall EXCEPT
            ![c].pc = "done",
            ![c].tx = NoTx,
            ![c].result = IF isSuccessful THEN "true" ELSE "false",
            ![c].onSuccess = @ + (IF isSuccessful THEN 1 ELSE 0),
            ![c].onFailure = @ + (IF isSuccessful THEN 0 ELSE 1)]
    /\ isWithdrawing' = FALSE
    /\ UNCHANGED <<mounted, portals, sort, wargs, wreads, dvars, avars>>

\* readContracts([convertToShares(amount), balanceOf(wagmiProvider.address)])
\* resolved; the tolerance test and the send follow without an await.
\* The balance read is the connected wallet's (wagmiProvider.address), which is
\* args.owner only when the owner is the connected wallet; ownerShares is the
\* vault's balanceOf(args.owner) at that moment, kept beside the transaction.
\* The wallet's balance (or a failed entry) is drawn apart from ownerShares,
\* which is tried at the two ends of the range.
WithdrawReadsReturn(c) ==
    /\ mounted = "withdraw"
    /\ wcall[c].pc = "readContracts"
    /\ \E _convertToShare \in Maybe(0..MaxShares),
          ownerShares \in {0, MaxShares},
          _availableShares \in Maybe(0..MaxShares) :
        wcall' = [wcall EXCEPT
            ![c].pc = "withdrawFrom4626Vault",
            ![c].reads = @ + 1,
            ![c].sent = @ + 1,
            ![c].tx = <<Withdraw4626Tx(wargs, decodeAsBigInt(_convertToShare),
                                       decodeAsBigInt(_availableShares))
                        @@ [ownerShares |-> ownerShares]>>]
    /\ UNCHANGED <<mounted, portals, sort, wargs, wreads, isWithdrawing, dvars, avars>>

\* withdrawFrom4626Vault resolved: the callbacks, then await refetchMaxWithdrawForUser
Withdraw4626Settle(c) ==
    /\ mounted = "withdraw"
    /\ wcall[c].pc = "withdrawFrom4626Vault"
    /\ \E isSuccessful \in BOOLEAN :
        wcall' = [wcall EXCEPT
            ![c].pc = "refetchMaxWithdrawForUser",
            ![c].tx = NoTx,
            ![c].result = IF isSuccessful THEN "true" ELSE "false",
            ![c].onSuccess = @ + (IF isSuccessful THEN 1 ELSE 0),
            ![c].onFailure = @ + (IF isSuccessful THEN 0 ELSE 1)]
    /\ UNCHANGED <<mounted, portals, sort, wargs, wreads, isWithdrawing, dvars, avars>>

WithdrawRefetchMax(c) ==
    /\ mounted = "withdraw"
    /\ wcall[c].pc = "refetchMaxWithdrawForUser"
    /\ \E v \in 0..MaxAmount :
        wreads' = [wreads EXCEPT !.maxWithdrawForUser = <<v>>]
    /\ wcall' = [wcall EXCEPT ![c].pc = "refetchBalanceOf"]
    /\ UNCHANGED <<mounted, portals, sort, wargs, isWithdrawing, dvars, avars>>

WithdrawRefetchBalance(c) ==
    /\ mounted = "withdraw"
    /\ wcall[c].pc = "refetchBalanceOf"
    /\ \E v \in 0..MaxShares :
        wreads' = [wreads EXCEPT !.shareOf = <<v>>]
    /\ wcall' = [wcall EXCEPT ![c].pc = "done"]
    /\ isWithdrawing' = FALSE
    /\ UNCHANGED <<mounted, portals, sort, wargs, dvars, avars>>

WithdrawInit ==
    /\ mounted = "withdraw"
    /\ \/ /\ wargs \in WArgsLegacy
          /\ wreads \in WReadsLegacy
       \/ /\ wargs \in WArgs4626
          /\ wreads \in WReads4626
       \/ /\ wargs = [version |-> "LEGACY", tokenToWithdraw |-> "erc20",
                      vault |-> "vault",
                      amountToWithdraw |-> ExampleWithdraw.amountToWithdraw,
                      redeemTolerance |-> ExampleWithdraw.redeemTolerance,
                      minOutSlippage |-> Undefined]
          /\ wreads = [maxWithdrawForUser |-> Undefined,
                       shareOf |-> <<ExampleWithdraw.shareOf>>,
                       decimals |-> <<ExampleWithdraw.decimals>>,
                       pps |-> <<ExampleWithdraw.pricePerShare>>]

WithdrawUnmounted ==
    /\ wargs = [version |-> "LEGACY", tokenToWithdraw |-> "invalid",
                vault |-> "invalid", amountToWithdraw |-> 0,
                redeemTolerance |-> 0, minOutSlippage |-> Undefined]
    /\ wreads = [maxWithdrawForUser |-> Undefined, shareOf |-> Undefined,
                 decimals |-> Undefined, pps |-> Undefined]

WithdrawNext ==
    \E c \in Calls :
        \/ WithdrawEnter(c)
        \/ WithdrawProvider(c)
        \/ WithdrawLegacySettle(c)
        \/ WithdrawReadsReturn(c)
        \/ Withdraw4626Settle(c)
        \/ WithdrawRefetchMax(c)
        \/ WithdrawRefetchBalance(c)

----------------------------------------------------------------------------
(* useVaultDeposit                                                         *)

DepositTokens == {"erc20", "eth", "zero", "invalid"}

\* args.receiver is optional: a well-formed address, or absent.
Receivers == {"receiver", "none"}

Routers == {"router", "invalid"}

SafeStatuses == {"AWAITING_EXECUTION", "SUCCESS", "FAILED", "CANCELLED"}

\* Malformed, zero or native addresses, and an explicit receiver, are tried
\* with one amount.
DAddressesOk(a) ==
    \/ a.tokenToDeposit = "erc20" /\ a.vault = "vault" /\ a.receiver = "none"
    \/ a.amountToDeposit = 1

DOptionsLegacy == Maybe([disableSafeBatch : BOOLEAN])

\* The minOutSlippage values tried for a deposit: the two ends of the valid
\* range, a value inside it, and one on each side outside it.
DepositSlippages == {-1, 0, 50, 10000, 10001}

\* A malformed router address is tried with one slippage; useRouter = false
\* is tried with one slippage and without a permit.
DOptions4626 ==
    Maybe({o \in [disableSafeBatch : BOOLEAN, useRouter : BOOLEAN,
                  minOutSlippage : DepositSlippages,
                  routerAddress : Routers, permitSignature : BOOLEAN] :
            /\ o.routerAddress = "router" \/ o.minOutSlippage = 50
            /\ o.useRouter \/ (o.minOutSlippage = 50 /\ ~o.permitSignature)})

DArgsLegacy ==
    {a \in [version : {"LEGACY"}, tokenToDeposit : DepositTokens, vault : Vaults,
            owner : {"owner"}, receiver : Receivers,
            amountToDeposit : 0..MaxAmount, options : DOptionsLegacy] :
        DAddressesOk(a)}

DArgs4626 ==
    {a \in [version : {"ERC-4626"}, tokenToDeposit : DepositTokens, vault : Vaults,
            owner : {"owner"}, receiver : Receivers,
            amountToDeposit : 0..MaxAmount, options : DOptions4626] :
        DAddressesOk(a)}

\* The cached reads a LEGACY hook can hold: only availableDepositLimit is enabled.
DReadsLegacy ==
    [maxDepositForUser : {Undefined}, previewDeposit : {Undefined},
     availableDepositLimit : Maybe(0..MaxAmount)]

\* The cached reads an ERC-4626 hook can hold.
DReads4626 ==
    [maxDepositForUser : Maybe(0..MaxAmount), previewDeposit : Maybe(0..MaxAmount),
     availableDepositLimit : {Undefined}]

DCallIdle ==
    [pc |-> "idle", result |-> "none", tx |-> NoTx, sent |-> 0, reads |-> 0,
     onSuccess |-> 0, onFailure |-> 0, txStatus |-> "none", message |-> "none"]

canDeposit_NoPreview ==
    IF isEthAddress(dargs.tokenToDeposit) THEN FALSE
    ELSE IF dargs.version = "LEGACY"
         THEN /\ isAddress(dargs.tokenToDeposit)
              /\ isAddress(dargs.vault)
              /\ dargs.amountToDeposit > 0
              /\ toBigInt(dreads.availableDepositLimit) >= dargs.amountToDeposit
    ELSE /\ isAddress(dargs.tokenToDeposit)
         /\ isAddress(dargs.vault)
         /\ dargs.amountToDeposit > 0
         /\ dargs.amountToDeposit <= toBigInt(dreads.maxDepositForUser)

canDeposit ==
    IF isEthAddress(dargs.tokenToDeposit) THEN FALSE
    ELSE IF dargs.version = "LEGACY"
         THEN /\ isAddress(dargs.tokenToDeposit)
              /\ isAddress(dargs.vault)
              /\ dargs.amountToDeposit > 0
              /\ dreads.availableDepositLimit # Undefined
              /\ toBigInt(dreads.availableDepositLimit) # 0
              /\ toBigInt(dreads.availableDepositLimit) >= dargs.amountToDeposit
    ELSE IF ~isAddress(dargs.tokenToDeposit) \/ ~isAddress(dargs.vault) THEN FALSE
    ELSE IF dargs.amountToDeposit <= 0 THEN FALSE
    ELSE IF dargs.amountToDeposit > toBigInt(dreads.maxDepositForUser) THEN FALSE
    ELSE dreads.previewDeposit # Undefined /\ toBigInt(dreads.previewDeposit) > 0

\* args.options?.disableSafeBatch
disableSafeBatch(a) ==
    IF a.options = Undefined THEN FALSE ELSE a.options[1].disableSafeBatch

takesSafeBatch_OnlyWithoutOptions(a, env) == env.isWalletSafe /\ a.options = Undefined

\* isWalletSafe && !args.options?.disableSafeBatch
takesSafeBatch(a, env) == env.isWalletSafe /\ ~disableSafeBatch(a)

takesRouter_WhenUseRouter(a) == a.options # Undefined /\ a.options[1].useRouter

\* if (args.options) { ... router multicall ... }: options.useRouter is not read
takesRouter(a) == a.options # Undefined

depositSlippageInvalid(o) == o.minOutSlippage < 0 \/ o.minOutSlippage > 10000

minShareOut_DivideFirst(previewDeposit, minOutSlippage) ==
    (toBigInt(previewDeposit) \div 10000) * (10000 - minOutSlippage)

\* (toBigInt(previewDeposit) * (10000n - minOutSlippage)) / 10000n
minShareOut(previewDeposit, minOutSlippage) ==
    (toBigInt(previewDeposit) * (10000 - minOutSlippage)) \div 10000

\* isAddress(args.receiver) ? args.receiver : args.owner
receiverOrOwner(a) == IF isAddress(a.receiver) THEN a.receiver ELSE a.owner

SafeBatch_DepositFirst(a) ==
    <<[to |-> a.vault, fn |-> "deposit", amount |-> toBigInt(<<a.amountToDeposit>>),
       receiver |-> receiverOrOwner(a)]>>
    \o (IF ~isZeroAddress(a.tokenToDeposit)
        THEN <<[to |-> a.tokenToDeposit, fn |-> "approve", spender |-> a.vault,
                amount |-> toBigInt(<<a.amountToDeposit>>)]>>
        ELSE <<>>)

\* The batch proposed to the Safe: approve(vault, amount) on the token (unless
\* the token is the zero address), then deposit(amount, receiver) on the vault.
SafeBatch(a) ==
    (IF ~isZeroAddress(a.tokenToDeposit)
     THEN <<[to |-> a.tokenToDeposit, fn |-> "approve", spender |-> a.vault,
             amount |-> toBigInt(<<a.amountToDeposit>>)]>>
     ELSE <<>>)
    \o <<[to |-> a.vault, fn |-> "deposit", amount |-> toBigInt(<<a.amountToDeposit>>),
          receiver |-> receiverOrOwner(a)]>>

\* viem's maxUint256, 2^256 - 1: the largest value an allowance can take. The
\* model's integers are 32 bits wide, so the top of their range stands for it.
maxUint256 == 2147483647

\* What readContract(allowance(routerAddress, vault)) can answer.
RouterAllowances == {0, maxUint256 - 1, maxUint256}

RouterMulticalls_PermitFirst(a, previewDeposit, routerAllowance) ==
    (IF a.options[1].permitSignature
     THEN <<[fn |-> "selfPermit", token |-> a.tokenToDeposit,
             amount |-> a.amountToDeposit]>>
     ELSE <<>>)
    \o (IF toBigInt(<<routerAllowance>>) < maxUint256
        THEN <<[fn |-> "approve", token |-> a.tokenToDeposit, vault |-> a.vault,
                amount |-> maxUint256]>>
        ELSE <<>>)
    \o <<[fn |-> "depositToVault", vault |-> a.vault, amount |-> a.amountToDeposit,
          receiver |-> receiverOrOwner(a),
          minShareOut |-> minShareOut(previewDeposit, a.options[1].minOutSlippage)]>>

\* The multicall sent to the router: approve(token, vault, maxUint256) when the
\* router's allowance is below maxUint256, selfPermit when a permit signature
\* is supplied, then depositToVault.
RouterMulticalls(a, previewDeposit, routerAllowance) ==
    (IF toBigInt(<<routerAllowance>>) < maxUint256
     THEN <<[fn |-> "approve", token |-> a.tokenToDeposit, vault |-> a.vault,
             amount |-> maxUint256]>>
     ELSE <<>>)
    \o (IF a.options[1].permitSignature
        THEN <<[fn |-> "selfPermit", token |-> a.tokenToDeposit,
                amount |-> a.amountToDeposit]>>
        ELSE <<>>)
    \o <<[fn |-> "depositToVault", vault |-> a.vault, amount |-> a.amountToDeposit,
          receiver |-> receiverOrOwner(a),
          minShareOut |-> minShareOut(previewDeposit, a.options[1].minOutSlippage)]>>

DFinish(c, res) == dcall' = [dcall EXCEPT ![c].pc = "done", ![c].result = res]

\* The errors a failed transaction is tried with: the texts tell the three
\* fields and the errors apart; "" stands for an empty or absent field.
Errors ==
    { [message |-> "m1", shortMessage |-> "s1", details |-> "d1"],
      [message |-> "",   shortMessage |-> "s2", details |-> "d2"],
      [message |-> "",   shortMessage |-> "",   details |-> "d3"],
      [message |-> "",   shortMessage |-> "",   details |-> ""] }

\* a || b on strings
orElse(a, b) == IF a # "" THEN a ELSE b

errorMessage_ShortFirst(error) ==
    orElse(orElse(orElse(error.shortMessage, error.message), error.details),
           "Unknown Error")

\* (error.message || error.shortMessage || error.details) || 'Unknown Error'
errorMessage(error) ==
    orElse(orElse(orElse(error.message, error.shortMessage), error.details),
           "Unknown Error")

DSettled_AlwaysFailure(c, isSuccessful, message, nextPc) ==
    dcall' = [dcall EXCEPT
        ![c].pc = nextPc,
        ![c].tx = NoTx,
        ![c].result = IF isSuccessful THEN "true" ELSE "false",
        ![c].onSuccess = @ + (IF isSuccessful THEN 1 ELSE 0),
        ![c].onFailure = @ + 1,
        ![c].message = message]

\* if (result.isSuccessful) onSuccess?.(receipt) else onFailure?.(message)
DSettled(c, isSuccessful, message, nextPc) ==
    dcall' = [dcall EXCEPT
        ![c].pc = nextPc,
        ![c].tx = NoTx,
        ![c].result = IF isSuccessful THEN "true" ELSE "false",
        ![c].onSuccess = @ + (IF isSuccessful THEN 1 ELSE 0),
        ![c].onFailure = @ + (IF isSuccessful THEN 0 ELSE 1),
        ![c].message = IF isSuccessful THEN @ ELSE message]

\* The transaction helper resolved with isSuccessful, or with an error.
DTxSettled(c, nextPc) ==
    \/ DSettled(c, TRUE, "none", nextPc)
    \/ \E error \in Errors : DSettled(c, FALSE, errorMessage(error), nextPc)

DepositEnter_FlagFirst(c) ==
    /\ mounted = "deposit"
    /\ dcall[c].pc = "idle"
    /\ isDepositing' = TRUE
    /\ IF ~canDeposit
       THEN DFinish(c, "false")
       ELSE IF takesSafeBatch(dargs, denv)
       THEN dcall' = [dcall EXCEPT ![c].pc = "sdk.txs.send", ![c].sent = @ + 1,
                                   ![c].tx = <<[fn |-> "safeBatch",
                                                calls |-> SafeBatch(dargs)]>>]
       ELSE dcall' = [dcall EXCEPT ![c].pc = "toWagmiProvider"]
    /\ UNCHANGED <<mounted, portals, sort, dargs, denv, dreads, wvars, avars>>

\* if (!canDeposit) return false; set_isDepositing(true); then either the Safe
\* batch is built and handed to sdk.txs.send, or toWagmiProvider is awaited.
DepositEnter(c) ==
    /\ mounted = "deposit"
    /\ dcall[c].pc = "idle"
    /\ IF ~canDeposit
       THEN /\ DFinish(c, "false")
            /\ UNCHANGED isDepositing
       ELSE /\ isDepositing' = TRUE
            /\ IF takesSafeBatch(dargs, denv)
               THEN dcall' = [dcall EXCEPT ![c].pc = "sdk.txs.send", ![c].sent = @ + 1,
                                           ![c].tx = <<[fn |-> "safeBatch",
                                                        calls |-> SafeBatch(dargs)]>>]
               ELSE dcall' = [dcall EXCEPT ![c].pc = "toWagmiProvider"]
    /\ UNCHANGED <<mounted, portals, sort, dargs, denv, dreads, wvars, avars>>

DSafeCaught_Silent(c) ==
    /\ dcall' = [dcall EXCEPT ![c].pc = "done", ![c].tx = NoTx,
                              ![c].result = IF dcall[c].txStatus = "SUCCESS"
                                            THEN "true" ELSE "false"]
    /\ isDepositing' = FALSE

\* catch (err) { onFailure } finally { set_isDepositing(false) }; the return
\* value is safeTransactionResult?.txStatus === 'SUCCESS'.
DSafeCaught(c) ==
    /\ dcall' = [dcall EXCEPT ![c].pc = "done", ![c].tx = NoTx,
                              ![c].result = IF dcall[c].txStatus = "SUCCESS"
                                            THEN "true" ELSE "false",
                              ![c].onFailure = @ + 1,
                              ![c].message = "Error while creating safe batch"]
    /\ isDepositing' = FALSE

\* sdk.txs.send resolved or threw.
DepositSafeSent(c) ==
    /\ mounted = "deposit"
    /\ dcall[c].pc = "sdk.txs.send"
    /\ \E threw \in BOOLEAN :
        IF threw
        THEN DSafeCaught(c)
        ELSE /\ dcall' = [dcall EXCEPT ![c].pc = "getBySafeTxHash"]
             /\ UNCHANGED isDepositing
    /\ UNCHANGED <<mounted, portals, sort, dargs, denv, dreads, wvars, avars>>

\* sdk.txs.getBySafeTxHash resolved with a status, or threw.
DepositSafeStatus(c) ==
    /\ mounted = "deposit"
    /\ dcall[c].pc = "getBySafeTxHash"
    /\ \/ DSafeCaught(c)
       \/ /\ \E status \in SafeStatuses :
               dcall' = [dcall EXCEPT ![c].pc = "setTimeout", ![c].txStatus = status]
          /\ UNCHANGED isDepositing
    /\ UNCHANGED <<mounted, portals, sort, dargs, denv, dreads, wvars, avars>>

DepositSafeWait_GiveUp(c) ==
    /\ mounted = "deposit"
    /\ dcall[c].pc = "setTimeout"
    /\ IF dcall[c].txStatus \notin {"SUCCESS", "FAILED", "CANCELLED", "AWAITING_EXECUTION"}
       THEN /\ dcall' = [dcall EXCEPT ![c].pc = "getBySafeTxHash"]
            /\ UNCHANGED isDepositing
       ELSE /\ DSettled(c, dcall[c].txStatus = "SUCCESS",
                        "Error while creating safe batch", "done")
            /\ isDepositing' = FALSE
    /\ UNCHANGED <<mounted, portals, sort, dargs, denv, dreads, wvars, avars>>

\* The 30 s timer fired: poll again, or leave the loop on a terminal status.
DepositSafeWait(c) ==
    /\ mounted = "deposit"
    /\ dcall[c].pc = "setTimeout"
    /\ IF dcall[c].txStatus \notin {"SUCCESS", "FAILED", "CANCELLED"}
       THEN /\ dcall' = [dcall EXCEPT ![c].pc = "getBySafeTxHash"]
            /\ UNCHANGED isDepositing
       ELSE /\ DSettled(c, dcall[c].txStatus = "SUCCESS",
                        "Error while creating safe batch", "done")
            /\ isDepositing' = FALSE
    /\ UNCHANGED <<mounted, portals, sort, dargs, denv, dreads, wvars, avars>>

\* toWagmiProvider resolved: provider check, then the LEGACY send, or the
\* option checks and the allowance read, or the direct ERC-4626 send.
DepositProvider(c) ==
    /\ mounted = "deposit"
    /\ dcall[c].pc = "toWagmiProvider"
    /\ \E providerOk \in BOOLEAN :
        IF ~providerOk
        THEN /\ isDepositing' = FALSE
             /\ DFinish(c, "false")
        ELSE IF dargs.version = "LEGACY"
        THEN /\ dcall' = [dcall EXCEPT ![c].pc = "depositToVault", ![c].sent = @ + 1,
                                       ![c].tx = <<[fn |-> "deposit",
                                                    receiver |-> receiverOrOwner(dargs),
                                                    amount |-> dargs.amountToDeposit]>>]
             /\ UNCHANGED isDepositing
        ELSE IF takesRouter(dargs)
        THEN IF depositSlippageInvalid(dargs.options[1])
                \/ ~isAddress(dargs.options[1].routerAddress)
             THEN /\ DFinish(c, "thrown")
                  /\ UNCHANGED isDepositing
             ELSE /\ dcall' = [dcall EXCEPT ![c].pc = "readContract",
                                            ![c].reads = @ + 1]
                  /\ UNCHANGED isDepositing
        ELSE /\ dcall' = [dcall EXCEPT ![c].pc = "depositToVault4626", ![c].sent = @ + 1,
                                       ![c].tx = <<[fn |-> "deposit",
                                                    receiver |-> receiverOrOwner(dargs),
                                                    amount |-> dargs.amountToDeposit]>>]
             /\ UNCHANGED isDepositing
    /\ UNCHANGED <<mounted, portals, sort, dargs, denv, dreads, wvars, avars>>

\* depositToVault resolved on the LEGACY path.
DepositLegacySettle(c) ==
    /\ mounted = "deposit"
    /\ dcall[c].pc = "depositToVault"
    /\ DTxSettled(c, "done")
    /\ isDepositing' = FALSE
    /\ UNCHANGED <<mounted, portals, sort, dargs, denv, dreads, wvars, avars>>

\* readContract(allowance(router, vault)) resolved or threw; on success the
\* multicall is built and sent.
DepositAllowanceReturn(c) ==
    /\ mounted = "deposit"
    /\ dcall[c].pc = "readContract"
    /\ \/ DFinish(c, "thrown")
       \/ \E routerAllowance \in RouterAllowances :
            dcall' = [dcall EXCEPT
                ![c].pc = "depositTo4626VaultViaRouter",
                ![c].sent = @ + 1,
                ![c].tx = <<[fn |-> "multicall",
                             to |-> dargs.options[1].routerAddress,
                             allowance |-> routerAllowance,
                             calls |-> RouterMulticalls(dargs, dreads.previewDeposit,
                                                        routerAllowance)]>>]
    /\ UNCHANGED <<mounted, portals, sort, dargs, denv, dreads, isDepositing, wvars, avars>>

\* depositTo4626VaultViaRouter resolved: callbacks, then await refetchMaxDepositForUser
DepositRouterSettle(c) ==
    /\ mounted = "deposit"
    /\ dcall[c].pc = "depositTo4626VaultViaRouter"
    /\ DTxSettled(c, "refetchMaxDepositForUser")
    /\ UNCHANGED <<mounted, portals, sort, dargs, denv, dreads, isDepositing, wvars, avars>>

\* depositToVault resolved on the direct ERC-4626 path.
DepositDirectSettle(c) ==
    /\ mounted = "deposit"
    /\ dcall[c].pc = "depositToVault4626"
    /\ DTxSettled(c, "refetchMaxDepositForUser")
    /\ UNCHANGED <<mounted, portals, sort, dargs, denv, dreads, isDepositing, wvars, avars>>

DepositRefetchMax(c) ==
    /\ mounted = "deposit"
    /\ dcall[c].pc = "refetchMaxDepositForUser"
    /\ \E v \in 0..MaxAmount :
        dreads' = [dreads EXCEPT !.maxDepositForUser = <<v>>]
    /\ dcall' = [dcall EXCEPT ![c].pc = "done"]
    /\ isDepositing' = FALSE
    /\ UNCHANGED <<mounted, portals, sort, dargs, denv, wvars, avars>>

DepositInit ==
    /\ mounted = "deposit"
    /\ denv \in [isWalletSafe : BOOLEAN]
    /\ \/ /\ dargs \in DArgsLegacy
          /\ dreads \in DReadsLegacy
       \/ /\ dargs \in DArgs4626
          /\ dreads \in DReads4626

DepositUnmounted ==
    /\ dargs = [version |-> "LEGACY", tokenToDeposit |-> "invalid",
                vault |-> "invalid", owner |-> "owner", receiver |-> "none",
                amountToDeposit |-> 0, options |-> Undefined]
    /\ denv = [isWalletSafe |-> FALSE]
    /\ dreads = [maxDepositForUser |-> Undefined, previewDeposit |-> Undefined,
                 availableDepositLimit |-> Undefined]

DepositNext ==
    \E c \in Calls :
        \/ DepositEnter(c)
        \/ DepositSafeSent(c)
        \/ DepositSafeStatus(c)
        \/ DepositSafeWait(c)
        \/ DepositProvider(c)
        \/ DepositLegacySettle(c)
        \/ DepositAllowanceReturn(c)
        \/ DepositRouterSettle(c)
        \/ DepositDirectSettle(c)
        \/ DepositRefetchMax(c)

----------------------------------------------------------------------------

(* useApprove (src/unnamed/part_001, lines 162-386).                       *)

ApproveTokens == {"erc20", "dai", "eth", "invalid"}

Spenders == {"spender", "invalid"}

\* A native or malformed token, or a malformed spender, is tried with one
\* amount and with the permit requested.
AAddressesOk(a) ==
    \/ a.tokenToApprove \in {"erc20", "dai"} /\ a.spender = "spender"
    \/ a.amountToApprove = 1 /\ a.shouldUsePermit

AArgs ==
    {a \in [tokenToApprove : ApproveTokens, spender : Spenders,
            amountToApprove : 0..MaxAmount, shouldUsePermit : BOOLEAN] :
        AAddressesOk(a)}

\* The arguments a re-render moves between: the user edits the amount, picks
\* another token, or the approval context starts or stops allowing a permit.
AArgsEdited ==
    {a \in AArgs : a.tokenToApprove \in {"erc20", "dai"} /\ a.spender = "spender"}

Allowances == Maybe(0..MaxAmount)

\* What a permit signature binds: signPermit is given the token as
\* contractAddress and amountToApprove as value.
PermitFor(token, amount) == [token |-> token, value |-> amount]

\* The locals of one onApprove invocation: closure is the args its useCallback
\* captured (kept while the invocation still reads them), canUsePermit,
\* signature and isSuccessful are the results of its awaits.
ACallIdle ==
    [pc |-> "idle", result |-> "none", closure |-> <<>>, canUsePermit |-> "none",
     signature |-> "none", isSuccessful |-> "none", tx |-> NoTx,
     probes |-> 0, signs |-> 0, sent |-> 0, refetches |-> 0,
     onSuccess |-> 0, onFailure |-> 0]

canApprove_AnyAmount ==
    IF isEthAddress(aargs.tokenToApprove) THEN FALSE
    ELSE isAddress(aargs.tokenToApprove) /\ isAddress(aargs.spender)

canApprove ==
    IF isEthAddress(aargs.tokenToApprove) THEN FALSE
    ELSE /\ isAddress(aargs.tokenToApprove)
         /\ isAddress(aargs.spender)
         /\ aargs.amountToApprove > 0

\* A bigint is truthy when it is defined and not 0n.
truthy(v) == v # Undefined /\ v[1] # 0

isApproved ==
    IF isEthAddress(aargs.tokenToApprove) THEN TRUE
    ELSE IF permitSignature # Undefined /\ truthy(permitAllowance)
    THEN permitAllowance[1] >= aargs.amountToApprove
    ELSE truthy(allowance) /\ allowance[1] >= aargs.amountToApprove

\* amountApproved: args.shouldUsePermit && permitSignature
\*     ? permitAllowance || allowance || 0n : allowance || 0n
amountApproved ==
    IF aargs.shouldUsePermit /\ permitSignature # Undefined
    THEN IF truthy(permitAllowance) THEN permitAllowance[1]
         ELSE IF truthy(allowance) THEN allowance[1] ELSE 0
    ELSE IF truthy(allowance) THEN allowance[1] ELSE 0

ApproveTx_Unlimited(cl) ==
    [fn |-> "approve", token |-> cl.tokenToApprove, spender |-> cl.spender,
     amount |-> cl.amountToApprove + MaxAmount]

\* approveERC20({contractAddress: tokenToApprove, spenderAddress: spender, amount})
ApproveTx(cl) ==
    [fn |-> "approve", token |-> cl.tokenToApprove, spender |-> cl.spender,
     amount |-> cl.amountToApprove]

\* if (!canApprove) return false; set_isApproving(true); then, with no await
\* in between, the call of isPermitSupported or of approveERC20
ApproveEnter(c) ==
    /\ mounted = "approve"
    /\ acall[c].pc = "idle"
    /\ IF ~canApprove
       THEN /\ acall' = [acall EXCEPT ![c].pc = "done", ![c].result = "false"]
            /\ UNCHANGED isApproving
       ELSE /\ isApproving' = TRUE
            /\ IF aargs.shouldUsePermit
               THEN acall' = [acall EXCEPT ![c].pc = "isPermitSupported",
                                           ![c].probes = @ + 1,
                                           ![c].closure = <<aargs>>]
               ELSE acall' = [acall EXCEPT ![c].pc = "approveERC20",
                                           ![c].sent = @ + 1,
                                           ![c].tx = <<ApproveTx(aargs)>>]
    /\ UNCHANGED <<mounted, portals, sort, aargs, allowance, permitSignature, permitAllowance,
                   wvars, dvars>>

\* isPermitSupported resolved (disableExceptions: it answers, it does not
\* throw): signPermit is called, or the approval is sent instead.
ApproveProbeReturn(c) ==
    /\ mounted = "approve"
    /\ acall[c].pc = "isPermitSupported"
    /\ \E canUsePermit \in BOOLEAN :
        IF canUsePermit
        THEN acall' = [acall EXCEPT ![c].pc = "signPermit",
                                    ![c].canUsePermit = "true",
                                    ![c].signs = @ + 1]
        ELSE acall' = [acall EXCEPT ![c].pc = "approveERC20",
                                    ![c].canUsePermit = "false",
                                    ![c].sent = @ + 1,
                                    ![c].tx = <<ApproveTx(acall[c].closure[1])>>,
                                    ![c].closure = <<>>]
    /\ UNCHANGED <<mounted, portals, sort, aargs, allowance, permitSignature, permitAllowance,
                   isApproving, wvars, dvars>>

ApproveSignReturn_KeepPermit(c) ==
    /\ mounted = "approve"
    /\ acall[c].pc = "signPermit"
    /\ \E signed \in BOOLEAN :
        IF ~signed
        THEN /\ UNCHANGED <<permitSignature, permitAllowance>>
             /\ acall' = [acall EXCEPT ![c].pc = "refetch",
                                       ![c].signature = "null",
                                       ![c].onFailure = @ + 1,
                                       ![c].closure = <<>>]
        ELSE /\ permitSignature' = <<PermitFor(acall[c].closure[1].tokenToApprove,
                                               acall[c].closure[1].amountToApprove)>>
             /\ permitAllowance' = <<acall[c].closure[1].amountToApprove>>
             /\ acall' = [acall EXCEPT ![c].pc = "refetch",
                                       ![c].signature = "signed",
                                       ![c].onSuccess = @ + 1,
                                       ![c].closure = <<>>]
    /\ UNCHANGED <<mounted, portals, sort, aargs, allowance, isApproving, wvars, dvars>>

ApproveSignReturn_Fallback(c) ==
    /\ mounted = "approve"
    /\ acall[c].pc = "signPermit"
    /\ \E signed \in BOOLEAN :
        IF ~signed
        THEN /\ UNCHANGED <<permitSignature, permitAllowance>>
             /\ acall' = [acall EXCEPT ![c].pc = "approveERC20",
                                       ![c].signature = "null",
                                       ![c].sent = @ + 1,
                                       ![c].tx = <<ApproveTx(acall[c].closure[1])>>,
                                       ![c].closure = <<>>]
        ELSE /\ permitSignature' = <<PermitFor(acall[c].closure[1].tokenToApprove,
                                               acall[c].closure[1].amountToApprove)>>
             /\ permitAllowance' = <<acall[c].closure[1].amountToApprove>>
             /\ acall' = [acall EXCEPT ![c].pc = "refetch",
                                       ![c].signature = "signed",
                                       ![c].onSuccess = @ + 1,
                                       ![c].closure = <<>>]
    /\ UNCHANGED <<mounted, portals, sort, aargs, allowance, isApproving, wvars, dvars>>

\* signPermit resolved with a signature or with nothing: the two permit
\* states are set or cleared, the callback is invoked, then await refetch()
ApproveSignReturn(c) ==
    /\ mounted = "approve"
    /\ acall[c].pc = "signPermit"
    /\ \E signed \in BOOLEAN :
        IF ~signed
        THEN /\ permitSignature' = Undefined
             /\ permitAllowance' = Undefined
             /\ acall' = [acall EXCEPT ![c].pc = "refetch",
                                       ![c].signature = "null",
                                       ![c].onFailure = @ + 1,
                                       ![c].closure = <<>>]
        ELSE /\ permitSignature' = <<PermitFor(acall[c].closure[1].tokenToApprove,
                                               acall[c].closure[1].amountToApprove)>>
             /\ permitAllowance' = <<acall[c].closure[1].amountToApprove>>
             /\ acall' = [acall EXCEPT ![c].pc = "refetch",
                                       ![c].signature = "signed",
                                       ![c].onSuccess = @ + 1,
                                       ![c].closure = <<>>]
    /\ UNCHANGED <<mounted, portals, sort, aargs, allowance, isApproving, wvars, dvars>>

ApproveTxSettle_ResetFirst(c) ==
    /\ mounted = "approve"
    /\ acall[c].pc = "approveERC20"
    /\ \E isSuccessful \in BOOLEAN :
        acall' = [acall EXCEPT
            ![c].pc = "refetch",
            ![c].tx = NoTx,
            ![c].isSuccessful = IF isSuccessful THEN "true" ELSE "false",
            ![c].onSuccess = @ + (IF isSuccessful THEN 1 ELSE 0),
            ![c].onFailure = @ + (IF isSuccessful THEN 0 ELSE 1)]
    /\ permitSignature' = Undefined
    /\ permitAllowance' = Undefined
    /\ isApproving' = FALSE
    /\ UNCHANGED <<mounted, portals, sort, aargs, allowance, wvars, dvars>>

\* approveERC20 resolved: the permit states are cleared, the callback is
\* invoked by result.isSuccessful, then await refetch()
ApproveTxSettle(c) ==
    /\ mounted = "approve"
    /\ acall[c].pc = "approveERC20"
    /\ \E isSuccessful \in BOOLEAN :
        acall' = [acall EXCEPT
            ![c].pc = "refetch",
            ![c].tx = NoTx,
            ![c].isSuccessful = IF isSuccessful THEN "true" ELSE "false",
            ![c].onSuccess = @ + (IF isSuccessful THEN 1 ELSE 0),
            ![c].onFailure = @ + (IF isSuccessful THEN 0 ELSE 1)]
    /\ permitSignature' = Undefined
    /\ permitAllowance' = Undefined
    /\ UNCHANGED <<mounted, portals, sort, aargs, allowance, isApproving, wvars, dvars>>

\* refetch() resolved: set_isApproving(false); return !!signature on the
\* permit path, result.isSuccessful on the transaction path
ApproveRefetch(c) ==
    /\ mounted = "approve"
    /\ acall[c].pc = "refetch"
    /\ \E v \in 0..MaxAmount : allowance' = <<v>>
    /\ isApproving' = FALSE
    /\ acall' = [acall EXCEPT
            ![c].pc = "done",
            ![c].refetches = @ + 1,
            ![c].result = IF acall[c].signature # "none"
                          THEN (IF acall[c].signature = "signed" THEN "true" ELSE "false")
                          ELSE acall[c].isSuccessful]
    /\ UNCHANGED <<mounted, portals, sort, aargs, permitSignature, permitAllowance, wvars, dvars>>

onClearPermit_SignatureOnly ==
    /\ mounted = "approve"
    /\ permitSignature' = Undefined
    /\ UNCHANGED <<mounted, portals, sort, aargs, allowance, permitAllowance, isApproving,
                   acall, wvars, dvars>>

\* onClearPermit, as the hook's consumer may invoke it at any time
onClearPermit ==
    /\ mounted = "approve"
    /\ permitSignature' = Undefined
    /\ permitAllowance' = Undefined
    /\ UNCHANGED <<mounted, portals, sort, aargs, allowance, isApproving, acall, wvars, dvars>>

\* The consumer renders the hook again with another amount, another token or
\* another shouldUsePermit: the states and the running invocations are
\* untouched; the allowance read follows the token.
ApproveRerender ==
    /\ mounted = "approve"
    /\ aargs \in AArgsEdited
    /\ \E a \in AArgsEdited :
        /\ Cardinality({f \in DOMAIN a : a[f] # aargs[f]}) = 1
        /\ aargs' = a
        /\ IF a.tokenToApprove = aargs.tokenToApprove
           THEN UNCHANGED allowance
           ELSE allowance' \in Allowances
    /\ UNCHANGED <<mounted, portals, sort, permitSignature, permitAllowance, isApproving, acall,
                   wvars, dvars>>

ApproveUnmounted ==
    /\ aargs = [tokenToApprove |-> "invalid", spender |-> "invalid",
                amountToApprove |-> 0, shouldUsePermit |-> FALSE]
    /\ allowance = Undefined

(* VaultsListHead (src/packages/lib/components/common/VaultsListHead.tsx). *)

\* The sortable entries of HEADER_TABS.
SortColumns == {"apy", "deposits", "balance"}

\* null
Null == "null"

SortDirections == {"", "desc", "asc", Null}

SortProps == [sortBy : SortColumns \cup {Null}, sortDirection : SortDirections]

SortUnmounted ==
    sort = [sortBy |-> Null, sortDirection |-> Null,
            start |-> [sortBy |-> Null, sortDirection |-> Null], clicks |-> <<>>]

toggleSortDirection_KeepColumn(props, newSortBy) ==
    <<[set |-> "sortBy", to |-> newSortBy]>> \o
    (IF props.sortBy = newSortBy /\ props.sortDirection = ""
     THEN <<[set |-> "sortDirection", to |-> "desc"]>>
     ELSE IF props.sortBy = newSortBy /\ props.sortDirection = "desc"
     THEN <<[set |-> "sortDirection", to |-> "asc"]>>
     ELSE IF props.sortBy = newSortBy /\ props.sortDirection = "asc"
     THEN <<[set |-> "sortDirection", to |-> Null]>>
     ELSE <<[set |-> "sortDirection", to |-> "desc"]>>)

\* toggleSortDirection(newSortBy): the calls it makes to props.onSortBy and
\* props.onSortDirection, in order.
toggleSortDirection(props, newSortBy) ==
    <<[set |-> "sortBy", to |-> newSortBy]>> \o
    (IF props.sortBy = newSortBy /\ props.sortDirection = ""
     THEN <<[set |-> "sortDirection", to |-> "desc"]>>
     ELSE IF props.sortBy = newSortBy /\ props.sortDirection = "desc"
     THEN <<[set |-> "sortDirection", to |-> "asc"]>>
     ELSE IF props.sortBy = newSortBy /\ props.sortDirection = "asc"
     THEN <<[set |-> "sortBy", to |-> Null],
            [set |-> "sortDirection", to |-> Null]>>
     ELSE <<[set |-> "sortDirection", to |-> "desc"]>>)

\* The owner of the sort state applies the setter calls in order: the last
\* value set for a field is the one rendered next.
RECURSIVE applySetters(_, _)
applySetters(props, calls) ==
    IF calls = <<>> THEN props
    ELSE applySetters([props EXCEPT ![Head(calls).set] = Head(calls).to], Tail(calls))

\* onClick of the button of a sortable column.
SortClick(column) ==
    /\ mounted = "list"
    /\ Len(sort.clicks) < MaxClicks
    /\ LET props == [sortBy |-> sort.sortBy, sortDirection |-> sort.sortDirection]
           next == applySetters(props, toggleSortDirection(props, column))
       IN  sort' = [sort EXCEPT !.sortBy = next.sortBy,
                                !.sortDirection = next.sortDirection,
                                !.clicks = Append(@, column)]
    /\ UNCHANGED <<mounted, portals, wvars, dvars, avars>>

----------------------------------------------------------------------------

(* usePortalsSolver (src/unnamed/part_004, lines 29-374), with a connected *)
(* wallet and the solver enabled.                                          *)

PActions == {"DEPOSIT", "WITHDRAW"}

\* Share balances and input amounts on both sides of 1/10000 and of 1/100 of
\* the balance.
PShares == {0, 1, 100, 10000, 20000}

PAmounts == {0, 1, 99, 100, 9900, 9999, 10000, 19998, 20000}

\* 10 ** decimals of the vault token, and prices per share of 0, 0.5, 1 and 2.
PUnit == 10

PricesPerShare == {0, 5, 10, 20}

\* One onDeposit (= onWithdraw) invocation of usePortalsSolver: handed is the
\* permit the execution was given (0 for none), executing tells an execution
\* that was started from one that was refused.
ZapIdle ==
    [pc |-> "idle", executing |-> FALSE, handed |-> 0, result |-> "none",
     refreshes |-> 0]

\* permit is the permitSignature useApprove holds (0 for undefined, else the
\* number of the signature), signed counts the signatures made so far.
PortalsConfigurations ==
    [action : PActions, isV3Vault : BOOLEAN, amount : Maybe(PAmounts),
     shareOf : Maybe(PShares), pricePerShare : Maybe(PricesPerShare),
     permit : {0}, signed : {0}, zap : {[c \in Calls |-> ZapIdle]}]

PortalsUnmounted ==
    portals = [action |-> "DEPOSIT", isV3Vault |-> FALSE, amount |-> Undefined,
               shareOf |-> Undefined, pricePerShare |-> Undefined,
               permit |-> 0, signed |-> 0, zap |-> [c \in Calls |-> ZapIdle]]

\* tolerance = shareOf * 1n / 10000n; shareOf - amount <= tolerance
isZapingBalance ==
    LET amount == toBigInt(portals.amount)
        tolerance == (toBigInt(portals.shareOf) * 1) \div 10000
    IN  toBigInt(portals.shareOf) - amount <= tolerance

\* normalizedVaultTokenAmount.raw: amount.display / pps.display, written back
\* with the vault token's decimals; 0 while pricePerShare is missing or zero.
normalizedVaultTokenAmount ==
    IF toBigInt(portals.pricePerShare) = 0
    THEN 0
    ELSE (toBigInt(portals.amount) * PUnit) \div toBigInt(portals.pricePerShare)

minNormalizedAmount_NoClamp ==
    IF portals.action = "DEPOSIT"
    THEN toBigInt(portals.amount)
    ELSE IF isZapingBalance
    THEN toBigInt(portals.shareOf)
    ELSE normalizedVaultTokenAmount

\* minNormalizedAmount.raw
minNormalizedAmount ==
    IF portals.action = "DEPOSIT"
    THEN toBigInt(portals.amount)
    ELSE IF toBigInt(portals.shareOf) < normalizedVaultTokenAmount \/ isZapingBalance
    THEN toBigInt(portals.shareOf)
    ELSE normalizedVaultTokenAmount

\* useApprove({amountToApprove: minNormalizedAmount.raw, ...})
portalsAmountToApprove == minNormalizedAmount

\* inputAsset.normalizedBigAmount.raw, the amount the quote is asked for
inputAssetAmount == minNormalizedAmount

\* vault.balanceOf(address) answered; enabled for a withdrawal only.
PortalsShareOfRead ==
    /\ mounted = "portals"
    /\ portals.action = "WITHDRAW"
    /\ \E v \in PShares : portals' = [portals EXCEPT !.shareOf = <<v>>]
    /\ UNCHANGED <<mounted, sort, wvars, dvars, avars>>

\* vault.pricePerShare() answered; enabled for a withdrawal from a vault that
\* is not a V3 vault.
PortalsPricePerShareRead ==
    /\ mounted = "portals"
    /\ portals.action = "WITHDRAW"
    /\ ~portals.isV3Vault
    /\ \E v \in PricesPerShare : portals' = [portals EXCEPT !.pricePerShare = <<v>>]
    /\ UNCHANGED <<mounted, sort, wvars, dvars, avars>>

\* The user edits the amount: configuration.tokenToSpend.amount changes.
PortalsSetAmount ==
    /\ mounted = "portals"
    /\ \E v \in Maybe(PAmounts) :
        /\ v # portals.amount
        /\ portals' = [portals EXCEPT !.amount = v]
    /\ UNCHANGED <<mounted, sort, wvars, dvars, avars>>

\* onApprove of useApprove stored a new permit signature.
PortalsPermitSigned ==
    /\ mounted = "portals"
    /\ portals.signed < MaxPermits
    /\ portals' = [portals EXCEPT !.signed = @ + 1, !.permit = portals.signed + 1]
    /\ UNCHANGED <<mounted, sort, wvars, dvars, avars>>

\* usePortals: an execution of the aggregator transaction is in flight (its
\* in-flight guard refuses another one until it has resolved).
zapInFlight ==
    \E d \in Calls : portals.zap[d].pc = "onExecuteDeposit" /\ portals.zap[d].executing

\* onDeposit(onSuccess) up to `await onExecuteDeposit(onSuccess)': the
\* execution starts with the permit usePortals was rendered with, unless
\* another execution is in flight, in which case it is refused.
PortalsDepositEnter(c) ==
    /\ mounted = "portals"
    /\ portals.zap[c].pc = "idle"
    /\ portals' = [portals EXCEPT
            !.zap[c].pc = "onExecuteDeposit",
            !.zap[c].executing = ~zapInFlight,
            !.zap[c].handed = IF zapInFlight THEN 0 ELSE portals.permit]
    /\ UNCHANGED <<mounted, sort, wvars, dvars, avars>>

PortalsDepositReturn_ClearOnSuccess(c) ==
    /\ mounted = "portals"
    /\ portals.zap[c].pc = "onExecuteDeposit"
    /\ \E isSuccess \in BOOLEAN :
        /\ isSuccess => portals.zap[c].executing
        /\ portals' = [portals EXCEPT
                !.permit = IF isSuccess THEN 0 ELSE @,
                !.zap[c].pc = "done",
                !.zap[c].result = IF isSuccess THEN "true" ELSE "false",
                !.zap[c].refreshes = @ + (IF isSuccess THEN 1 ELSE 0)]
    /\ UNCHANGED <<mounted, sort, wvars, dvars, avars>>

\* onExecuteDeposit resolved: onClearPermit(); if (isSuccess)
\* onRefreshBalances(configuration); return isSuccess
PortalsDepositReturn(c) ==
    /\ mounted = "portals"
    /\ portals.zap[c].pc = "onExecuteDeposit"
    /\ \E isSuccess \in BOOLEAN :
        /\ isSuccess => portals.zap[c].executing
        /\ portals' = [portals EXCEPT
                !.permit = 0,
                !.zap[c].pc = "done",
                !.zap[c].result = IF isSuccess THEN "true" ELSE "false",
                !.zap[c].refreshes = @ + (IF isSuccess THEN 1 ELSE 0)]
    /\ UNCHANGED <<mounted, sort, wvars, dvars, avars>>

PortalsInit ==
    /\ mounted = "portals"
    /\ portals \in PortalsConfigurations
    /\ portals.shareOf = Undefined
    /\ portals.pricePerShare = Undefined
    /\ isWithdrawing = FALSE
    /\ wcall = [c \in Calls |-> WCallIdle]
    /\ isDepositing = FALSE
    /\ dcall = [c \in Calls |-> DCallIdle]
    /\ permitSignature = Undefined
    /\ permitAllowance = Undefined
    /\ isApproving = FALSE
    /\ acall = [c \in Calls |-> ACallIdle]
    /\ WithdrawUnmounted
    /\ DepositUnmounted
    /\ ApproveUnmounted
    /\ SortUnmounted

PortalsNext ==
    \/ PortalsShareOfRead
    \/ PortalsPricePerShareRead
    \/ PortalsSetAmount
    \/ PortalsPermitSigned
    \/ \E c \in Calls :
        \/ PortalsDepositEnter(c)
        \/ PortalsDepositReturn(c)

PortalsSpec == PortalsInit /\ [][PortalsNext]_vars

----------------------------------------------------------------------------

\* VaultsListHead as first rendered by the vault list.
SortInit ==
    /\ mounted = "list"
    /\ \E props \in SortProps :
        sort = [sortBy |-> props.sortBy, sortDirection |-> props.sortDirection,
                start |-> props, clicks |-> <<>>]
    /\ isWithdrawing = FALSE
    /\ wcall = [c \in Calls |-> WCallIdle]
    /\ isDepositing = FALSE
    /\ dcall = [c \in Calls |-> DCallIdle]
    /\ permitSignature = Undefined
    /\ permitAllowance = Undefined
    /\ isApproving = FALSE
    /\ acall = [c \in Calls |-> ACallIdle]
    /\ WithdrawUnmounted
    /\ DepositUnmounted
    /\ ApproveUnmounted
    /\ PortalsUnmounted

SortNext == \E column \in SortColumns : SortClick(column)

SortSpec == SortInit /\ [][SortNext]_vars

----------------------------------------------------------------------------

ApproveInit ==
    /\ mounted = "approve"
    /\ aargs \in AArgs
    /\ allowance \in Allowances
    /\ permitSignature = Undefined
    /\ permitAllowance = Undefined
    /\ isApproving = FALSE
    /\ acall = [c \in Calls |-> ACallIdle]
    /\ isWithdrawing = FALSE
    /\ wcall = [c \in Calls |-> WCallIdle]
    /\ isDepositing = FALSE
    /\ dcall = [c \in Calls |-> DCallIdle]
    /\ WithdrawUnmounted
    /\ DepositUnmounted
    /\ PortalsUnmounted
    /\ SortUnmounted

ApproveNext ==
    \/ \E c \in Calls :
        \/ ApproveEnter(c)
        \/ ApproveProbeReturn(c)
        \/ ApproveSignReturn(c)
        \/ ApproveTxSettle(c)
        \/ ApproveRefetch(c)
    \/ onClearPermit
    \/ ApproveRerender

ApproveSpec == ApproveInit /\ [][ApproveNext]_vars

----------------------------------------------------------------------------

Init ==
    /\ isWithdrawing = FALSE
    /\ wcall = [c \in Calls |-> WCallIdle]
    /\ isDepositing = FALSE
    /\ dcall = [c \in Calls |-> DCallIdle]
    /\ permitSignature = Undefined
    /\ permitAllowance = Undefined
    /\ isApproving = FALSE
    /\ acall = [c \in Calls |-> ACallIdle]
    /\ ApproveUnmounted
    /\ PortalsUnmounted
    /\ SortUnmounted
    /\ \/ WithdrawInit /\ DepositUnmounted
       \/ DepositInit /\ WithdrawUnmounted

Next == WithdrawNext \/ DepositNext

Spec == Init /\ [][Next]_vars

\* useVaultDeposit in a Safe wallet with the batch not disabled: the timer of
\* the polling loop always fires (setTimeout of 30 s), and a pending
\* sdk.txs.getBySafeTxHash answers or throws.
SafeBatchInit ==
    /\ Init
    /\ mounted = "deposit"
    /\ takesSafeBatch(dargs, denv)

SafeBatchNext ==
    \E c \in Calls :
        \/ DepositEnter(c)
        \/ DepositSafeSent(c)
        \/ DepositSafeStatus(c)
        \/ DepositSafeWait(c)

SafeBatchSpec ==
    /\ SafeBatchInit
    /\ [][SafeBatchNext]_vars
    /\ \A c \in Calls : /\ WF_vars(DepositSafeWait(c))
                        /\ WF_vars(DepositSafeStatus(c))

----------------------------------------------------------------------------
(* Properties.                                                             *)

InFlight(call) == call.pc \notin {"idle", "done"}

Quiescent == \A c \in Calls : ~InFlight(dcall[c]) /\ ~InFlight(wcall[c])

ToleranceInRange == wargs.redeemTolerance \in 0..10000

\* C1: a second onDeposit / onWithdraw issued while an earlier one is in
\* flight is rejected at entry, so two invocations of the same hook instance
\* are never past the entry check at the same time (and so at most one
\* transaction or batch is ever outstanding).
C1_InFlightExclusive ==
    /\ Cardinality({c \in Calls : InFlight(dcall[c])}) <= 1
    /\ Cardinality({c \in Calls : InFlight(wcall[c])}) <= 1
    /\ Cardinality({c \in Calls : dcall[c].tx # NoTx}) <= 1
    /\ Cardinality({c \in Calls : wcall[c].tx # NoTx}) <= 1

\* C2: on every exit path of onDeposit and onWithdraw the in-flight flag is
\* false once the call has finished: whenever no invocation is in flight,
\* isDepositing and isWithdrawing are false.
C2_FlagClearedOnEveryExit ==
    Quiescent => (isDepositing = FALSE /\ isWithdrawing = FALSE)

\* C3: an ERC-4626 deposit or withdrawal whose minOutSlippage is outside
\* [0, 10000] issues no network call (no read, no send, no batch proposal)
\* and never succeeds, whichever execution strategy would be selected.
C3_InvalidSlippageNoNetworkCall ==
    /\ (/\ mounted = "deposit"
        /\ dargs.version = "ERC-4626"
        /\ dargs.options # Undefined
        /\ dargs.options[1].minOutSlippage \notin 0..10000)
       => \A c \in Calls :
            /\ dcall[c].sent = 0
            /\ dcall[c].reads = 0
            /\ dcall[c].result # "true"
    /\ (/\ mounted = "withdraw"
        /\ wargs.version = "ERC-4626"
        /\ wargs.minOutSlippage[1] \notin 0..10000)
       => \A c \in Calls :
            /\ wcall[c].sent = 0
            /\ wcall[c].reads = 0
            /\ wcall[c].result # "true"

\* C4: onWithdraw with redeemTolerance outside [0, 10000] makes no network
\* call, for LEGACY and ERC-4626 vaults alike: it never gets past the
\* provider lookup, issues no read and no transaction, invokes no callback,
\* and ends by throwing (or by returning false when canWithdraw is false or
\* no wallet provider is found).
C4_InvalidToleranceNoNetworkCall ==
    (mounted = "withdraw" /\ ~ToleranceInRange)
    => \A c \in Calls :
        /\ wcall[c].pc \in {"idle", "toWagmiProvider", "done"}
        /\ wcall[c].sent = 0
        /\ wcall[c].reads = 0
        /\ wcall[c].tx = NoTx
        /\ wcall[c].onSuccess = 0
        /\ wcall[c].onFailure = 0
        /\ wcall[c].result \in {"none", "false", "thrown"}

C4_Witness ==
    /\ mounted = "withdraw"
    /\ wargs.redeemTolerance = 10001
    /\ wargs.version = "LEGACY"
    /\ toBigInt(wreads.pps) > 0
    /\ \E c \in Calls : wcall[c].pc = "done" /\ wcall[c].result = "thrown"

\* C5: when canDeposit (canWithdraw) is false as onDeposit (onWithdraw) is
\* called - in particular for a deposit of 0 tokens - the call resolves false
\* at once with no read, no send and no callback, and leaves the in-flight
\* flag as it was.
C5_CannotProceedIsNoOp ==
    [][\A c \in Calls :
        /\ (/\ mounted = "deposit"
            /\ dcall[c].pc = "idle"
            /\ dcall'[c].pc # "idle"
            /\ (~canDeposit \/ dargs.amountToDeposit = 0))
           => /\ dcall'[c] = [DCallIdle EXCEPT !.pc = "done", !.result = "false"]
              /\ isDepositing' = isDepositing
        /\ (/\ mounted = "withdraw"
            /\ wcall[c].pc = "idle"
            /\ wcall'[c].pc # "idle"
            /\ (~canWithdraw \/ wargs.amountToWithdraw = 0))
           => /\ wcall'[c] = [WCallIdle EXCEPT !.pc = "done", !.result = "false"]
              /\ isWithdrawing' = isWithdrawing]_vars

C5_Witness ==
    /\ mounted = "deposit"
    /\ dargs.version = "ERC-4626"
    /\ dargs.tokenToDeposit = "erc20"
    /\ dargs.vault = "vault"
    /\ dargs.amountToDeposit = 0
    /\ isDepositing = FALSE
    /\ \E c \in Calls : dcall[c] = [DCallIdle EXCEPT !.pc = "done", !.result = "false"]

\* C6: whenever the share amount computed for a withdrawal equals the owner's
\* share balance, the request is classified as a full withdrawal, for every
\* redeemTolerance in [0, 10000].
C6_EqualSharesIsFullWithdrawal ==
    \A c \in Calls :
        (/\ wcall[c].tx # NoTx
         /\ ToleranceInRange
         /\ wcall[c].tx[1].shares = wcall[c].tx[1].balance)
        => wcall[c].tx[1].isAskingToWithdrawAll

\* C7: with redeemTolerance = 0 a request is classified as a full withdrawal
\* only when the computed share amount equals the owner's share balance.
C7_ZeroToleranceOnlyOnEquality ==
    \A c \in Calls :
        (/\ wcall[c].tx # NoTx
         /\ wargs.redeemTolerance = 0
         /\ wcall[c].tx[1].isAskingToWithdrawAll)
        => wcall[c].tx[1].shares = wcall[c].tx[1].balance

\* C8: with redeemTolerance = 10000 every request that passes canWithdraw is
\* classified as a full withdrawal.
C8_FullToleranceAlwaysFull ==
    \A c \in Calls :
        (wcall[c].tx # NoTx /\ wargs.redeemTolerance = 10000)
        => wcall[c].tx[1].isAskingToWithdrawAll

\* C9: for a LEGACY vault the share amount computed for a requested amount a
\* is the truncated quotient of a * 10^decimals by pricePerShare: it is the
\* one integer s >= 0 with s * p <= a * 10^d < (s + 1) * p.
C9_LegacySharesIsTruncatedQuotient ==
    \A c \in Calls :
        (mounted = "withdraw" /\ wargs.version = "LEGACY" /\ wcall[c].tx # NoTx)
        => LET s == wcall[c].tx[1].shares
               p == toBigInt(wreads.pps)
               n == wargs.amountToWithdraw * Pow10(toBigInt(wreads.decimals))
           IN  /\ p > 0
               /\ s >= 0
               /\ s * p <= n
               /\ n < (s + 1) * p

C9_Witness ==
    /\ mounted = "withdraw"
    /\ wargs.version = "LEGACY"
    /\ toBigInt(wreads.decimals) >= 1
    /\ toBigInt(wreads.pps) > 1
    /\ \E c \in Calls :
        /\ wcall[c].tx # NoTx
        /\ wcall[c].tx[1].shares > 0
        /\ wcall[c].tx[1].shares * toBigInt(wreads.pps)
             < wargs.amountToWithdraw * Pow10(toBigInt(wreads.decimals))

\* C10: a LEGACY withdrawal is classified as full exactly when
\* (ownerShareBalance - shares) < ownerShareBalance * toleranceBps / 10000,
\* and then submits the owner's whole share balance, otherwise the converted
\* share amount; the design's scenario (price 1.05, 100 requested, 95.5 owned,
\* 100 bps) is a full withdrawal of 95.5 shares.
C10_LegacyFullWithdrawalRule ==
    \A c \in Calls :
        (mounted = "withdraw" /\ wargs.version = "LEGACY" /\ wcall[c].tx # NoTx)
        => LET t == wcall[c].tx[1]
               ownerShareBalance == toBigInt(wreads.shareOf)
               full == (ownerShareBalance - t.shares)
                         < (ownerShareBalance * wargs.redeemTolerance) \div 10000
           IN  /\ t.fn = "withdraw"
               /\ t.isAskingToWithdrawAll = full
               /\ t.amount = IF full THEN ownerShareBalance ELSE t.shares
               /\ (/\ wargs.amountToWithdraw = ExampleWithdraw.amountToWithdraw
                   /\ wargs.redeemTolerance = ExampleWithdraw.redeemTolerance
                   /\ wreads.shareOf = <<ExampleWithdraw.shareOf>>
                   /\ wreads.pps = <<ExampleWithdraw.pricePerShare>>
                   /\ wreads.decimals = <<ExampleWithdraw.decimals>>)
                  => (full /\ t.amount = 9550 /\ t.shares = 9523)

C10_Witness ==
    /\ mounted = "withdraw"
    /\ wargs.version = "LEGACY"
    /\ wargs.amountToWithdraw = ExampleWithdraw.amountToWithdraw
    /\ wreads.shareOf = <<ExampleWithdraw.shareOf>>
    /\ \E c \in Calls :
        /\ wcall[c].tx # NoTx
        /\ wcall[c].tx[1].isAskingToWithdrawAll
        /\ wcall[c].tx[1].amount = ExampleWithdraw.shareOf

\* C11: an ERC-4626 withdrawal is built from the two live reads, and the
\* tolerance test is made against the live share balance of args.owner, the
\* owner the withdrawal is sent for: full means redeem of that whole balance,
\* otherwise withdraw of the requested asset amount.
C11_ToleranceAgainstOwnerLiveBalance ==
    \A c \in Calls :
        (mounted = "withdraw" /\ wargs.version = "ERC-4626" /\ wcall[c].tx # NoTx)
        => LET t == wcall[c].tx[1]
               full == (t.ownerShares - t.shares)
                         < (t.ownerShares * wargs.redeemTolerance) \div 10000
           IN  /\ t.isAskingToWithdrawAll = full
               /\ t.fn = IF full THEN "redeem" ELSE "withdraw"
               /\ t.amount = IF full THEN t.ownerShares ELSE wargs.amountToWithdraw

\* C12: while a read the computation needs is undefined or zero (previewDeposit,
\* maxDepositForUser or availableDepositLimit for a deposit; maxWithdrawForUser
\* for an ERC-4626 withdrawal; pricePerShare, decimals or the share balance for
\* a LEGACY withdrawal) canDeposit / canWithdraw is false, and no call raises
\* on a missing or zero pricePerShare.
C12_MissingReadMeansCannotProceed ==
    /\ (mounted = "deposit" /\ dargs.version = "ERC-4626"
        /\ (toBigInt(dreads.maxDepositForUser) = 0
            \/ toBigInt(dreads.previewDeposit) = 0))
       => ~canDeposit
    /\ (mounted = "deposit" /\ dargs.version = "LEGACY"
        /\ toBigInt(dreads.availableDepositLimit) = 0)
       => ~canDeposit
    /\ (mounted = "withdraw" /\ wargs.version = "ERC-4626"
        /\ toBigInt(wreads.maxWithdrawForUser) = 0)
       => ~canWithdraw
    /\ (mounted = "withdraw" /\ wargs.version = "LEGACY"
        /\ (toBigInt(wreads.pps) = 0 \/ wreads.decimals = Undefined
            \/ toBigInt(wreads.shareOf) = 0))
       => ~canWithdraw
    /\ (mounted = "withdraw" /\ wargs.version = "LEGACY"
        /\ toBigInt(wreads.pps) = 0 /\ ToleranceInRange)
       => \A c \in Calls : wcall[c].result # "thrown"

\* C13: canDeposit is true exactly when the token and the vault are well-formed
\* addresses, the token is not the chain-native asset, the amount is positive,
\* and, for an ERC-4626 vault, amount <= maxDepositForUser and
\* previewDeposit(amount) > 0, or, for a LEGACY vault,
\* amount <= availableDepositLimit.
C13_CanDepositCharacterised ==
    mounted = "deposit" =>
        (canDeposit <=>
            /\ dargs.tokenToDeposit \notin {"invalid", "zero", "none"}
            /\ dargs.vault \notin {"invalid", "zero", "none"}
            /\ dargs.tokenToDeposit # "eth"
            /\ dargs.amountToDeposit > 0
            /\ \/ /\ dargs.version = "ERC-4626"
                  /\ dreads.maxDepositForUser # Undefined
                  /\ dargs.amountToDeposit <= dreads.maxDepositForUser[1]
                  /\ dreads.previewDeposit # Undefined
                  /\ dreads.previewDeposit[1] > 0
               \/ /\ dargs.version = "LEGACY"
                  /\ dreads.availableDepositLimit # Undefined
                  /\ dargs.amountToDeposit <= dreads.availableDepositLimit[1])

\* An ERC-4626 deposit that passed canDeposit and went on.
C13_Witness ==
    /\ mounted = "deposit"
    /\ dargs.version = "ERC-4626"
    /\ dargs.amountToDeposit = MaxAmount
    /\ dreads.maxDepositForUser = <<MaxAmount>>
    /\ dreads.previewDeposit = <<1>>
    /\ canDeposit
    /\ \E c \in Calls : dcall[c].pc = "toWagmiProvider"

\* C14 as stated: canWithdraw is true exactly when the token and the vault are
\* well-formed addresses, the amount is positive and, for an ERC-4626 vault,
\* amount <= maxWithdrawForUser; a LEGACY vault has no further condition.
C14_CanWithdrawAsStated ==
    mounted = "withdraw" =>
        (canWithdraw <=>
            /\ wargs.tokenToWithdraw \notin {"invalid", "zero", "none"}
            /\ wargs.vault \notin {"invalid", "zero", "none"}
            /\ wargs.amountToWithdraw > 0
            /\ \/ wargs.version = "LEGACY"
               \/ /\ wargs.version = "ERC-4626"
                  /\ wreads.maxWithdrawForUser # Undefined
                  /\ wargs.amountToWithdraw <= wreads.maxWithdrawForUser[1])

\* C14 amended: the same, and the token is not the chain-native asset.
C14_CanWithdrawCharacterised ==
    mounted = "withdraw" =>
        (canWithdraw <=>
            /\ wargs.tokenToWithdraw \notin {"invalid", "zero", "none"}
            /\ wargs.vault \notin {"invalid", "zero", "none"}
            /\ wargs.tokenToWithdraw # "eth"
            /\ wargs.amountToWithdraw > 0
            /\ \/ wargs.version = "LEGACY"
               \/ /\ wargs.version = "ERC-4626"
                  /\ wreads.maxWithdrawForUser # Undefined
                  /\ wargs.amountToWithdraw <= wreads.maxWithdrawForUser[1])

\* A withdrawal of the native asset within the ceiling was refused at entry.
C14_Witness ==
    /\ mounted = "withdraw"
    /\ wargs.version = "ERC-4626"
    /\ wargs.tokenToWithdraw = "eth"
    /\ wargs.vault = "vault"
    /\ wargs.amountToWithdraw > 0
    /\ wreads.maxWithdrawForUser # Undefined
    /\ wargs.amountToWithdraw <= wreads.maxWithdrawForUser[1]
    /\ ~canWithdraw
    /\ \E c \in Calls :
        wcall[c].pc = "done" /\ wcall[c].result = "false" /\ wcall[c].sent = 0

\* C15: for an ERC-20 token, when a permit signature with its permit allowance
\* and an allowance reading are both present, isApproved is
\* permitAllowance >= amountToApprove whatever the allowance; when no permit
\* is present and the allowance has been read, it is
\* allowance >= amountToApprove.
C15_ApprovalPrecedence ==
    (mounted = "approve" /\ aargs.tokenToApprove # "eth") =>
        /\ (permitSignature # Undefined /\ permitAllowance # Undefined
            /\ allowance # Undefined)
           => (isApproved <=> permitAllowance[1] >= aargs.amountToApprove)
        /\ (permitSignature = Undefined /\ permitAllowance = Undefined
            /\ allowance # Undefined)
           => (isApproved <=> allowance[1] >= aargs.amountToApprove)

\* C16: a stored permit signature binds the token and the amount the hook is
\* currently asked to approve.
C16_PermitMatchesCurrentRequest ==
    (mounted = "approve" /\ permitSignature # Undefined) =>
        /\ permitSignature[1].token = aargs.tokenToApprove
        /\ permitSignature[1].value = aargs.amountToApprove
        /\ permitAllowance = <<aargs.amountToApprove>>

\* C17: an onApprove invocation whose signPermit returned nothing clears both
\* permit states and invokes onFailure once (onSuccess never) in that step;
\* until it resolves, no step other than one of another invocation stores a
\* permit again; and it resolves false, not thrown, after one allowance
\* refetch, setting isApproving to false.
C17_NullSignatureOutcome ==
    [][\A c \in Calls :
        /\ (acall[c].pc = "signPermit" /\ acall'[c].signature = "null")
           => /\ permitSignature' = Undefined
              /\ permitAllowance' = Undefined
              /\ acall'[c].onFailure = 1
              /\ acall'[c].onSuccess = 0
              /\ acall'[c].pc = "refetch"
        /\ (/\ acall[c].signature = "null"
            /\ acall[c].pc = "refetch"
            /\ \A d \in Calls \ {c} : acall'[d] = acall[d]
            /\ permitSignature = Undefined
            /\ permitAllowance = Undefined)
           => /\ permitSignature' = Undefined
              /\ permitAllowance' = Undefined
        /\ (/\ acall[c].signature = "null"
            /\ acall[c].pc = "refetch"
            /\ acall'[c].pc # "refetch")
           => /\ acall'[c].pc = "done"
              /\ acall'[c].result = "false"
              /\ acall'[c].refetches = 1
              /\ acall'[c].onFailure = 1
              /\ acall'[c].onSuccess = 0
              /\ allowance' # Undefined
              /\ isApproving' = FALSE
    ]_vars

\* A permit signed by one invocation was cleared by a later invocation whose
\* signature request returned nothing, and that invocation has resolved false.
C17_Witness ==
    /\ mounted = "approve"
    /\ permitSignature = Undefined
    /\ permitAllowance = Undefined
    /\ ~isApproving
    /\ \E c \in Calls, d \in Calls :
        /\ acall[d].pc = "done" /\ acall[d].signature = "signed"
        /\ acall[c].pc = "done" /\ acall[c].signature = "null"
        /\ acall[c].result = "false"
        /\ acall[c].onFailure = 1

\* C18: an invocation that requested the permit, was told the token supports
\* it and got no signature reports the failure (onFailure, resolved false) and
\* never sends the standard approval transaction.
C18_NoFallbackAfterRefusedSignature ==
    \A c \in Calls :
        (/\ mounted = "approve"
         /\ acall[c].probes = 1
         /\ acall[c].canUsePermit = "true"
         /\ acall[c].signature = "null")
        => /\ acall[c].sent = 0
           /\ acall[c].tx = NoTx
           /\ acall[c].pc \in {"refetch", "done"}
           /\ acall[c].onFailure = 1
           /\ acall[c].onSuccess = 0
           /\ acall[c].pc = "done" => acall[c].result = "false"

C18_Witness ==
    /\ mounted = "approve"
    /\ \E c \in Calls :
        /\ acall[c].pc = "done"
        /\ acall[c].canUsePermit = "true"
        /\ acall[c].signs = 1
        /\ acall[c].signature = "null"
        /\ acall[c].sent = 0
        /\ acall[c].result = "false"

\* C19: an invocation that passes canApprove with shouldUsePermit false, or
\* whose permit probe answers unsupported, sends one approve(spender,
\* amountToApprove) on tokenToApprove, with the arguments it was invoked with,
\* and requests no signature; when the transaction settles both permit states
\* are cleared, and no step other than one of another invocation stores a
\* permit before the invocation resolves with the transaction's isSuccessful.
C19_StandardApprovalPath ==
    [][\A c \in Calls :
        /\ (/\ acall[c].pc = "idle"
            /\ acall'[c].pc # "idle"
            /\ aargs.tokenToApprove \in {"erc20", "dai"}
            /\ aargs.spender = "spender"
            /\ aargs.amountToApprove > 0
            /\ ~aargs.shouldUsePermit)
           => /\ acall'[c].pc = "approveERC20"
              /\ acall'[c].tx = <<[fn |-> "approve",
                                   token |-> aargs.tokenToApprove,
                                   spender |-> aargs.spender,
                                   amount |-> aargs.amountToApprove]>>
              /\ acall'[c].sent = 1
              /\ acall'[c].probes = 0
              /\ acall'[c].signs = 0
        /\ (acall[c].pc = "isPermitSupported" /\ acall'[c].canUsePermit = "false")
           => /\ acall'[c].pc = "approveERC20"
              /\ acall'[c].tx = <<[fn |-> "approve",
                                   token |-> acall[c].closure[1].tokenToApprove,
                                   spender |-> acall[c].closure[1].spender,
                                   amount |-> acall[c].closure[1].amountToApprove]>>
              /\ acall'[c].sent = 1
              /\ acall'[c].signs = 0
        /\ (acall[c].pc = "approveERC20" /\ acall'[c].pc # "approveERC20")
           => /\ acall'[c].pc = "refetch"
              /\ acall'[c].isSuccessful \in {"true", "false"}
              /\ acall'[c].sent = 1
              /\ acall'[c].signs = 0
              /\ permitSignature' = Undefined
              /\ permitAllowance' = Undefined
        /\ (/\ acall[c].isSuccessful # "none"
            /\ acall[c].pc = "refetch"
            /\ \A d \in Calls \ {c} : acall'[d] = acall[d]
            /\ permitSignature = Undefined
            /\ permitAllowance = Undefined)
           => /\ permitSignature' = Undefined
              /\ permitAllowance' = Undefined
        /\ (/\ acall[c].isSuccessful # "none"
            /\ acall[c].pc = "refetch"
            /\ acall'[c].pc # "refetch")
           => /\ acall'[c].pc = "done"
              /\ acall'[c].result = acall[c].isSuccessful
              /\ acall'[c].sent = 1
              /\ acall'[c].signs = 0
    ]_vars

\* After a permit was signed, an invocation whose probe answered unsupported
\* sent the approval, which succeeded, and no permit is stored.
C19_Witness ==
    /\ mounted = "approve"
    /\ permitSignature = Undefined
    /\ permitAllowance = Undefined
    /\ \E c \in Calls, d \in Calls :
        /\ acall[d].pc = "done" /\ acall[d].signature = "signed"
        /\ acall[c].pc = "done"
        /\ acall[c].canUsePermit = "false"
        /\ acall[c].sent = 1
        /\ acall[c].signs = 0
        /\ acall[c].result = "true"

\* C20: an onApprove invocation made while the token is native or malformed,
\* the spender is malformed or the amount is not positive returns false at
\* once: isApproving, permitSignature, permitAllowance and the allowance are
\* unchanged, and there is no probe, signature request, approval transaction,
\* refetch or callback.
C20_CannotApproveIsNoOp ==
    [][\A c \in Calls :
        (/\ mounted = "approve"
         /\ acall[c].pc = "idle"
         /\ acall'[c].pc # "idle"
         /\ ~(/\ aargs.tokenToApprove # "eth"
              /\ aargs.tokenToApprove \notin {"invalid", "zero", "none"}
              /\ aargs.spender \notin {"invalid", "zero", "none"}
              /\ aargs.amountToApprove > 0))
        => /\ acall'[c] = [ACallIdle EXCEPT !.pc = "done", !.result = "false"]
           /\ isApproving' = isApproving
           /\ permitSignature' = permitSignature
           /\ permitAllowance' = permitAllowance
           /\ allowance' = allowance
           /\ \A d \in Calls \ {c} : acall'[d] = acall[d]
    ]_vars

\* With a permit stored and another invocation in flight, an invocation made
\* with amountToApprove = 0 returned false and did nothing.
C20_Witness ==
    /\ mounted = "approve"
    /\ aargs.tokenToApprove = "erc20"
    /\ aargs.amountToApprove = 0
    /\ isApproving
    /\ permitSignature # Undefined
    /\ \E c \in Calls :
        /\ acall[c] = [ACallIdle EXCEPT !.pc = "done", !.result = "false"]
        /\ \A d \in Calls \ {c} : acall[d].pc = "refetch"

\* C21: an onApprove invocation that passed canApprove has refetched the
\* allowance exactly once when it resolves, on either path and whatever the
\* outcome, never more than once, and isApproving is set to false only by the
\* step in which an invocation's refetch has returned.
C21_RefetchOnceBeforeReset ==
    [][/\ \A c \in Calls :
            /\ acall'[c].refetches <= 1
            /\ (acall[c].pc \notin {"idle", "done"} /\ acall'[c].pc = "done")
               => /\ acall[c].pc = "refetch"
                  /\ acall[c].refetches = 0
                  /\ acall'[c].refetches = 1
                  /\ allowance' # Undefined
                  /\ isApproving' = FALSE
            /\ (acall[c].pc \notin {"idle", "done", "refetch"})
               => acall'[c].refetches = 0
       /\ (isApproving /\ ~isApproving')
          => \E c \in Calls :
                /\ acall[c].pc = "refetch"
                /\ acall'[c].pc = "done"
                /\ acall'[c].refetches = 1
    ]_vars

\* One invocation signed a permit, the other sent an approval that failed;
\* both have resolved after one refetch each.
C21_Witness ==
    /\ mounted = "approve"
    /\ ~isApproving
    /\ allowance # Undefined
    /\ \E c \in Calls, d \in Calls :
        /\ acall[d].pc = "done" /\ acall[d].signature = "signed"
        /\ acall[d].refetches = 1
        /\ acall[c].pc = "done" /\ acall[c].isSuccessful = "false"
        /\ acall[c].refetches = 1

\* C22: an onDeposit invocation submits at most one transaction or batch, and
\* what it submits follows the priority: the Safe batch when the wallet is a
\* Safe and disableSafeBatch is not set, whatever the version and the options;
\* otherwise the router multicall when the vault is ERC-4626 and options are
\* supplied; otherwise the direct vault deposit (always so for a LEGACY vault
\* and a wallet that is not a Safe).
C22_OneStrategyByPriority ==
    mounted = "deposit" =>
        \A c \in Calls :
            LET safe == /\ denv.isWalletSafe
                        /\ ~(dargs.options # Undefined
                             /\ dargs.options[1].disableSafeBatch)
                router == /\ ~safe
                          /\ dargs.version = "ERC-4626"
                          /\ dargs.options # Undefined
            IN  /\ dcall[c].sent <= 1
                /\ dcall[c].tx # NoTx
                   => /\ dcall[c].sent = 1
                      /\ dcall[c].tx[1].fn = (IF safe THEN "safeBatch"
                                              ELSE IF router THEN "multicall"
                                              ELSE "deposit")
                /\ dcall[c].pc \in {"sdk.txs.send", "getBySafeTxHash", "setTimeout"}
                   => safe
                /\ dcall[c].pc \in {"readContract", "depositTo4626VaultViaRouter"}
                   => router
                /\ dcall[c].pc \in {"depositToVault", "depositToVault4626"}
                   => (~safe /\ ~router)
                /\ (dargs.version = "LEGACY" /\ ~denv.isWalletSafe
                    /\ dcall[c].tx # NoTx)
                   => dcall[c].tx[1].fn = "deposit"

\* A Safe wallet depositing into an ERC-4626 vault with router options
\* supplied (disableSafeBatch not set) has proposed the batch.
C22_Witness ==
    /\ mounted = "deposit"
    /\ denv.isWalletSafe
    /\ dargs.version = "ERC-4626"
    /\ dargs.options # Undefined
    /\ ~dargs.options[1].disableSafeBatch
    /\ dargs.options[1].routerAddress = "router"
    /\ \E c \in Calls :
        /\ dcall[c].tx # NoTx
        /\ dcall[c].tx[1].fn = "safeBatch"
        /\ dcall[c].sent = 1

\* C23: the router multicall is one transaction whose calls are, in this
\* order: approve(token, vault, maxUint256) iff the allowance read for the
\* router toward the vault is below maxUint256, selfPermit iff a permit
\* signature is supplied, and depositToVault, always present and last.
C23_RouterMulticallOrder ==
    \A c \in Calls :
        (/\ mounted = "deposit"
         /\ dcall[c].tx # NoTx
         /\ dcall[c].tx[1].fn = "multicall")
        => LET t == dcall[c].tx[1]
               n == Len(t.calls)
               withApprove == t.allowance < 2147483647
               withPermit == dargs.options[1].permitSignature
               Index(f) == {i \in 1..n : t.calls[i].fn = f}
           IN  /\ dcall[c].sent = 1
               /\ n = 1 + (IF withApprove THEN 1 ELSE 0) + (IF withPermit THEN 1 ELSE 0)
               /\ Index("depositToVault") = {n}
               /\ t.calls[n].amount = dargs.amountToDeposit
               /\ t.calls[n].vault = dargs.vault
               /\ Index("approve") = (IF withApprove THEN {1} ELSE {})
               /\ withApprove
                  => /\ t.calls[1].token = dargs.tokenToDeposit
                     /\ t.calls[1].vault = dargs.vault
                     /\ t.calls[1].amount = 2147483647
               /\ Index("selfPermit") = (IF withPermit THEN {n - 1} ELSE {})
               /\ withPermit => t.calls[n - 1].amount = dargs.amountToDeposit

\* A multicall of all three calls is outstanding: the router's allowance was
\* one short of the maximum and a permit signature was supplied.
C23_Witness ==
    /\ mounted = "deposit"
    /\ \E c \in Calls :
        /\ dcall[c].tx # NoTx
        /\ dcall[c].tx[1].fn = "multicall"
        /\ dcall[c].tx[1].allowance = maxUint256 - 1
        /\ Len(dcall[c].tx[1].calls) = 3
        /\ dcall[c].tx[1].calls[2].fn = "selfPermit"

\* C24: the minimum-shares-out floor in the router's depositToVault call is
\* previewDeposit * (10000 - minOutSlippage) / 10000, truncated; the slippage
\* of a submitted multicall is within [0, 10000], so the floor is within
\* [0, previewDeposit], is previewDeposit at slippage 0 and 0 at slippage 10000.
C24_MinShareOutFloor ==
    \A c \in Calls :
        (/\ mounted = "deposit"
         /\ dcall[c].tx # NoTx
         /\ dcall[c].tx[1].fn = "multicall")
        => LET t == dcall[c].tx[1]
               floor == t.calls[Len(t.calls)].minShareOut
               previewedShares == dreads.previewDeposit[1]
               slippageBps == dargs.options[1].minOutSlippage
           IN  /\ dreads.previewDeposit # Undefined
               /\ slippageBps \in 0..10000
               /\ floor = (previewedShares * (10000 - slippageBps)) \div 10000
               /\ floor \in 0..previewedShares
               /\ slippageBps = 0 => floor = previewedShares
               /\ slippageBps = 10000 => floor = 0

\* A multicall is outstanding whose floor was truncated: MaxAmount previewed
\* shares at 50 bps give a floor one share below MaxAmount.
C24_Witness ==
    /\ mounted = "deposit"
    /\ dreads.previewDeposit = <<MaxAmount>>
    /\ dargs.options # Undefined
    /\ dargs.options[1].minOutSlippage = 50
    /\ \E c \in Calls :
        /\ dcall[c].tx # NoTx
        /\ dcall[c].tx[1].fn = "multicall"
        /\ dcall[c].tx[1].calls[Len(dcall[c].tx[1].calls)].minShareOut = MaxAmount - 1

\* C25: the batch proposed to the Safe is one send of an ordered list: an
\* approve(vault, amount) call on the deposited token first iff the token is
\* not the zero address, then exactly one deposit(amount, receiver) call on
\* the vault, last; the receiver is args.receiver when it is a valid address,
\* otherwise args.owner.
C25_SafeBatchContents ==
    \A c \in Calls :
        (/\ mounted = "deposit"
         /\ dcall[c].tx # NoTx
         /\ dcall[c].tx[1].fn = "safeBatch")
        => LET calls == dcall[c].tx[1].calls
               n == Len(calls)
               withApprove == dargs.tokenToDeposit # "zero"
               receiver == IF dargs.receiver \notin {"invalid", "zero", "none"}
                           THEN dargs.receiver ELSE dargs.owner
           IN  /\ dcall[c].sent = 1
               /\ n = (IF withApprove THEN 2 ELSE 1)
               /\ {i \in 1..n : calls[i].fn = "deposit"} = {n}
               /\ calls[n].to = dargs.vault
               /\ calls[n].amount = dargs.amountToDeposit
               /\ calls[n].receiver = receiver
               /\ {i \in 1..n : calls[i].fn = "approve"}
                    = (IF withApprove THEN {1} ELSE {})
               /\ withApprove
                  => /\ calls[1].to = dargs.tokenToDeposit
                     /\ calls[1].spender = dargs.vault
                     /\ calls[1].amount = dargs.amountToDeposit

\* A batch with an explicit receiver has been proposed: approve, then deposit
\* to that receiver.
C25_Witness ==
    /\ mounted = "deposit"
    /\ dargs.receiver = "receiver"
    /\ \E c \in Calls :
        /\ dcall[c].pc = "sdk.txs.send"
        /\ dcall[c].tx # NoTx
        /\ dcall[c].tx[1].fn = "safeBatch"
        /\ Len(dcall[c].tx[1].calls) = 2
        /\ dcall[c].tx[1].calls[1].fn = "approve"
        /\ dcall[c].tx[1].calls[2].receiver = "receiver"

\* C26: an onDeposit invocation on the Safe batch path finishes with true and
\* one onSuccess exactly when it leaves the polling loop on status SUCCESS;
\* when it leaves the loop on FAILED or CANCELLED, or when sdk.txs.send or
\* sdk.txs.getBySafeTxHash throws, it finishes with false (not thrown) and one
\* onFailure; the finishing step sets isDepositing to false.
C26_SafeBatchOutcome ==
    [][\A c \in Calls :
        (/\ mounted = "deposit"
         /\ dcall[c].pc \in {"sdk.txs.send", "getBySafeTxHash", "setTimeout"}
         /\ dcall'[c].pc = "done")
        => LET succeeded == /\ dcall[c].pc = "setTimeout"
                            /\ dcall[c].txStatus = "SUCCESS"
           IN  /\ dcall'[c].result = (IF succeeded THEN "true" ELSE "false")
               /\ dcall'[c].onSuccess = (IF succeeded THEN 1 ELSE 0)
               /\ dcall'[c].onFailure = (IF succeeded THEN 0 ELSE 1)
               /\ isDepositing' = FALSE
    ]_vars

\* A Safe batch invocation whose status poll threw, after an earlier poll had
\* answered AWAITING_EXECUTION, has finished with false and one onFailure.
C26_Witness ==
    /\ mounted = "deposit"
    /\ denv.isWalletSafe
    /\ ~isDepositing
    /\ \E c \in Calls :
        /\ dcall[c].pc = "done"
        /\ dcall[c].sent = 1
        /\ dcall[c].txStatus = "AWAITING_EXECUTION"
        /\ dcall[c].result = "false"
        /\ dcall[c].onFailure = 1
        /\ dcall[c].onSuccess = 0

TerminalStatuses == {"SUCCESS", "FAILED", "CANCELLED"}

\* C27 as stated: a Safe batch invocation finishes only after it has observed
\* a terminal status.
C27_FinishesOnlyAfterTerminalStatus ==
    [][\A c \in Calls :
        (/\ dcall[c].pc \in {"sdk.txs.send", "getBySafeTxHash", "setTimeout"}
         /\ dcall'[c].pc = "done")
        => dcall[c].txStatus \in TerminalStatuses
    ]_vars

\* C27: on the Safe batch path an invocation whose sdk calls do not throw
\* finishes only from the timer that follows a terminal status: a step of the
\* invocation taken while its last observed status is non-terminal either
\* polls again, leaving isDepositing alone, or is the catch of a thrown
\* sdk.txs.send / getBySafeTxHash (one onFailure, result false); there is no
\* timeout. While no other invocation has run, isDepositing is true
\* throughout the polling. Once a terminal status has been observed the
\* invocation eventually finishes, and the finishing step resets isDepositing.
C27_PollsUntilTerminalOrThrow ==
    /\ [][\A c \in Calls :
            (/\ dcall[c].pc \in {"sdk.txs.send", "getBySafeTxHash", "setTimeout"}
             /\ dcall'[c] # dcall[c])
            => IF dcall[c].pc = "setTimeout"
               THEN IF dcall[c].txStatus \in TerminalStatuses
                    THEN dcall'[c].pc = "done" /\ isDepositing' = FALSE
                    ELSE /\ dcall'[c].pc = "getBySafeTxHash"
                         /\ isDepositing' = isDepositing
               ELSE \/ /\ dcall'[c].pc \in {"getBySafeTxHash", "setTimeout"}
                       /\ isDepositing' = isDepositing
                    \/ /\ dcall'[c].pc = "done"
                       /\ dcall'[c].result = "false"
                       /\ dcall'[c].onFailure = dcall[c].onFailure + 1
                       /\ isDepositing' = FALSE
       ]_vars
    /\ [](\A c \in Calls :
            (/\ dcall[c].pc \in {"sdk.txs.send", "getBySafeTxHash", "setTimeout"}
             /\ \A d \in Calls \ {c} : dcall[d].pc = "idle")
            => isDepositing)
    /\ \A c \in Calls :
            (dcall[c].pc = "setTimeout" /\ dcall[c].txStatus \in TerminalStatuses)
            ~> (dcall[c].pc = "done")

\* An invocation, alone on the hook, saw the proposal CANCELLED and has finished.
C27_Witness ==
    /\ mounted = "deposit"
    /\ takesSafeBatch(dargs, denv)
    /\ ~isDepositing
    /\ \E c \in Calls :
        /\ dcall[c].pc = "done"
        /\ dcall[c].txStatus = "CANCELLED"
        /\ dcall[c].result = "false"
        /\ dcall[c].onFailure = 1
        /\ \A d \in Calls \ {c} : dcall[d].pc = "idle"

\* C28: an onDeposit or onWithdraw invocation that submitted a transaction or
\* a batch finishes only from the step in which its refetch of the cached
\* reads has returned (refetchMaxDepositForUser for a deposit,
\* refetchMaxWithdrawForUser then refetchBalanceOf for a withdrawal), on every
\* strategy and whether the transaction succeeded or failed.
C28_RefreshBeforeFinished ==
    [][\A c \in Calls :
        /\ (/\ dcall[c].sent >= 1
            /\ dcall[c].pc # "done"
            /\ dcall'[c].pc = "done")
           => dcall[c].pc = "refetchMaxDepositForUser"
        /\ (/\ wcall[c].sent >= 1
            /\ wcall[c].pc # "done"
            /\ wcall'[c].pc = "done")
           => wcall[c].pc = "refetchBalanceOf"
    ]_vars

DepositSendPcs == {"depositToVault", "depositTo4626VaultViaRouter", "depositToVault4626"}

\* The message the claim names for an error: message if non-empty, else
\* shortMessage, else details, else the literal 'Unknown Error'.
MostSpecificMessage(error) ==
    IF error.message # "" THEN error.message
    ELSE IF error.shortMessage # "" THEN error.shortMessage
    ELSE IF error.details # "" THEN error.details
    ELSE "Unknown Error"

\* C29: when the transaction of a LEGACY, router or direct ERC-4626 deposit
\* resolves as failed, the step invokes onFailure once, with error.message if
\* non-empty, else error.shortMessage, else error.details, else 'Unknown
\* Error', invokes no onSuccess, and the invocation goes on to resolve false
\* (it does not throw); onFailure is invoked with no other message on these
\* paths.
C29_FailureMessageSelection ==
    [][\A c \in Calls :
        /\ (/\ dcall[c].pc \in DepositSendPcs
            /\ dcall'[c].pc # dcall[c].pc
            /\ dcall'[c].onSuccess = dcall[c].onSuccess)
           => /\ dcall'[c].onFailure = dcall[c].onFailure + 1
              /\ dcall'[c].result = "false"
              /\ dcall'[c].pc \in {"done", "refetchMaxDepositForUser"}
              /\ \E error \in Errors : dcall'[c].message = MostSpecificMessage(error)
        /\ (/\ dcall[c].pc = "refetchMaxDepositForUser"
            /\ dcall'[c].pc # dcall[c].pc)
           => /\ dcall'[c].pc = "done"
              /\ dcall'[c].result = dcall[c].result
              /\ dcall'[c].message = dcall[c].message
              /\ dcall'[c].onFailure = dcall[c].onFailure
    ]_vars

\* A router deposit failed with an error that has no message and no
\* shortMessage: onFailure received the details, and the call resolved false.
C29_Witness ==
    /\ mounted = "deposit"
    /\ \E c \in Calls :
        /\ dcall[c].pc = "done"
        /\ dcall[c].sent = 1
        /\ dcall[c].reads = 1
        /\ dcall[c].result = "false"
        /\ dcall[c].onFailure = 1
        /\ dcall[c].onSuccess = 0
        /\ dcall[c].message = "d3"

\* C30: for a withdrawal whose share balance is known, isZapingBalance is
\* true exactly when the requested amount is at least 99% of the share
\* balance (the remainder shareOf - amount is at most 1% of shareOf), and then
\* the amount to zap is the whole share balance.
C30_ZapAllFromNinetyNinePercent ==
    (/\ mounted = "portals"
     /\ portals.action = "WITHDRAW"
     /\ portals.shareOf # Undefined)
    => /\ isZapingBalance
          <=> (toBigInt(portals.shareOf) - toBigInt(portals.amount)) * 100
                  <= toBigInt(portals.shareOf)
       /\ isZapingBalance => minNormalizedAmount = toBigInt(portals.shareOf)

PMin(a, b) == IF a <= b THEN a ELSE b

C32_SortCycle ==
    /\ [][\A column \in SortColumns :
            (mounted = "list" /\ sort'.clicks = Append(sort.clicks, column))
            => IF sort.sortBy # column
               THEN sort'.sortBy = column /\ sort'.sortDirection = "desc"
               ELSE /\ sort.sortDirection = ""
                       => sort'.sortBy = column /\ sort'.sortDirection = "desc"
                    /\ sort.sortDirection = "desc"
                       => sort'.sortBy = column /\ sort'.sortDirection = "asc"
                    /\ sort.sortDirection = "asc"
                       => sort'.sortBy = Null /\ sort'.sortDirection = Null
       ]_vars
    /\ [](\A column \in SortColumns :
            (/\ mounted = "list"
             /\ sort.start.sortBy = Null
             /\ sort.clicks = <<column, column, column>>)
            => sort.sortBy = Null /\ sort.sortDirection = Null)

\* Three clicks on APY from the unsorted list: the list is unsorted again.
C32_Witness ==
    /\ mounted = "list"
    /\ sort.start = [sortBy |-> Null, sortDirection |-> Null]
    /\ sort.clicks = <<"apy", "apy", "apy">>
    /\ sort.sortBy = Null
    /\ sort.sortDirection = Null

\* C33: the share amount a LEGACY onWithdraw submits never exceeds the owner's
\* cached share balance (shareOf), whatever the requested amount, the price
\* per share and the tolerance in [0, 10000]; a request whose converted share
\* amount is larger than the balance is submitted as the balance.
C33_LegacySubmissionWithinBalance ==
    \A c \in Calls :
        (/\ mounted = "withdraw"
         /\ wargs.version = "LEGACY"
         /\ wcall[c].tx # NoTx)
        => LET cached == IF wreads.shareOf = Undefined THEN 0 ELSE wreads.shareOf[1]
               converted == (wargs.amountToWithdraw * Pow10(toBigInt(wreads.decimals)))
                                \div toBigInt(wreads.pps)
           IN  /\ wargs.redeemTolerance \in 0..10000
               /\ wcall[c].tx[1].amount <= cached
               /\ converted > cached => wcall[c].tx[1].amount = cached

\* A LEGACY withdrawal whose converted share amount is above the cached
\* balance is outstanding with the balance as its amount.
C33_Witness ==
    /\ mounted = "withdraw"
    /\ wargs.version = "LEGACY"
    /\ wreads.shareOf # Undefined
    /\ toBigInt(wreads.shareOf) > 0
    /\ \E c \in Calls :
        /\ wcall[c].tx # NoTx
        /\ wcall[c].tx[1].shares > toBigInt(wreads.shareOf)
        /\ wcall[c].tx[1].amount = toBigInt(wreads.shareOf)

\* What C34 says of one finished or running invocation, from its counters.
CallbacksMatchOutcome(call) ==
    /\ call.onSuccess + call.onFailure <= 1
    /\ call.sent = 0 => call.onSuccess = 0 /\ call.onFailure = 0
    /\ call.pc = "done"
       => IF call.sent >= 1
          THEN /\ call.onSuccess + call.onFailure = 1
               /\ call.result \in {"true", "false"}
               /\ call.result = "true" <=> call.onSuccess = 1
          ELSE call.result \in {"false", "thrown"}

\* C34: an onDeposit or onWithdraw invocation that submitted a transaction or
\* a batch and obtained its outcome has invoked exactly one of onSuccess and
\* onFailure, once, and resolves true exactly when it was onSuccess; an
\* invocation that stopped before submitting has invoked neither, and resolves
\* false when it stopped on canDeposit / canWithdraw being false; one that
\* stopped after toWagmiProvider without submitting resolves false (missing
\* wallet provider) or throws (failed option check or failed read).
C34_ExactlyOneCallback ==
    /\ [](\A c \in Calls : CallbacksMatchOutcome(dcall[c]) /\ CallbacksMatchOutcome(wcall[c]))
    /\ [][\A c \in Calls :
            /\ (dcall[c].pc = "idle" /\ dcall'[c].pc = "done")
               => dcall'[c].result = "false"
            /\ (wcall[c].pc = "idle" /\ wcall'[c].pc = "done")
               => wcall'[c].result = "false"
       ]_vars

\* A router deposit succeeded and a second invocation was refused at entry.
C34_Witness ==
    /\ mounted = "deposit"
    /\ \E c \in Calls :
        /\ dcall[c].pc = "done"
        /\ dcall[c].sent = 1
        /\ dcall[c].reads = 1
        /\ dcall[c].result = "true"
        /\ dcall[c].onSuccess = 1
        /\ dcall[c].onFailure = 0
        /\ \E d \in Calls \ {c} :
            /\ dcall[d].pc = "done"
            /\ dcall[d].sent = 0
            /\ dcall[d].result = "false"

PermitStatesPaired ==
    /\ permitSignature = Undefined <=> permitAllowance = Undefined
    /\ permitSignature # Undefined
       => /\ permitAllowance[1] > 0
          /\ permitAllowance[1] = permitSignature[1].value

\* C35: permitSignature and permitAllowance of useApprove are both defined or
\* both undefined; when defined, permitAllowance is strictly positive and is
\* the amountToApprove the permit was signed for (the value of the invocation
\* that signed). A step that changes either one sets both: a successful sign
\* stores the signature and its amount, and a failed sign, a settled standard
\* approval and onClearPermit leave both undefined.
C35_PermitStatesMoveTogether ==
    /\ []PermitStatesPaired
    /\ [][/\ (permitSignature' # permitSignature \/ permitAllowance' # permitAllowance)
             => \/ permitSignature' = Undefined /\ permitAllowance' = Undefined
                \/ \E c \in Calls :
                    /\ acall[c].pc = "signPermit"
                    /\ acall'[c].signature = "signed"
                    /\ permitAllowance' = <<acall[c].closure[1].amountToApprove>>
                    /\ permitSignature'[1].value = acall[c].closure[1].amountToApprove
          /\ \A c \in Calls :
                (\/ acall[c].pc = "signPermit" /\ acall'[c].signature = "null"
                 \/ acall[c].pc = "approveERC20" /\ acall'[c].pc # "approveERC20")
                => permitSignature' = Undefined /\ permitAllowance' = Undefined
       ]_vars

\* A permit signed for 2 is stored while the hook is now rendered with 1.
C35_Witness ==
    /\ mounted = "approve"
    /\ permitSignature # Undefined
    /\ permitSignature[1].value = 2
    /\ permitAllowance = <<2>>
    /\ aargs.amountToApprove = 1
    /\ \E c \in Calls : acall[c].pc = "done" /\ acall[c].signature = "signed"

\* C36: with a non-native token, isApproved is true exactly when the reported
\* amountApproved is at least amountToApprove, in every reachable state of
\* useApprove, also after shouldUsePermit has changed from true to false
\* while a permit signature is still stored.
C36_ApprovalOutputsAgree ==
    (mounted = "approve" /\ ~isEthAddress(aargs.tokenToApprove))
    => (isApproved <=> amountApproved >= aargs.amountToApprove)

\* C37: an ERC-4626 deposit that does not take the Safe batch and has
\* args.options defined takes the router path whatever options.useRouter is:
\* it never sends the direct vault deposit, a transaction it has outstanding
\* is the multicall to options.routerAddress, and with a malformed
\* routerAddress (and a valid slippage) it reads nothing, sends nothing and
\* an invocation that got its wallet provider ends by throwing.
C37_RouterWheneverOptions ==
    /\ [](\A c \in Calls :
            (/\ mounted = "deposit"
             /\ dargs.version = "ERC-4626"
             /\ dargs.options # Undefined
             /\ ~denv.isWalletSafe \/ dargs.options[1].disableSafeBatch)
            => /\ dcall[c].pc # "depositToVault4626"
               /\ dcall[c].tx # NoTx
                  => /\ dcall[c].tx[1].fn = "multicall"
                     /\ dcall[c].tx[1].to = dargs.options[1].routerAddress
               /\ dargs.options[1].routerAddress = "invalid"
                  => /\ dcall[c].sent = 0
                     /\ dcall[c].reads = 0
                     /\ dcall[c].result \in {"none", "false", "thrown"})
    /\ [][\A c \in Calls :
            (/\ mounted = "deposit"
             /\ dargs.version = "ERC-4626"
             /\ dargs.options # Undefined
             /\ ~denv.isWalletSafe \/ dargs.options[1].disableSafeBatch
             /\ dcall[c].pc = "toWagmiProvider"
             /\ dcall'[c].pc # "toWagmiProvider")
            => \/ dcall'[c].pc = "done" /\ dcall'[c].result \in {"false", "thrown"}
               \/ /\ dcall'[c].pc = "readContract"
                  /\ dargs.options[1].routerAddress # "invalid"
       ]_vars

\* With useRouter = false and a valid router address, the multicall to the
\* router is outstanding.
C37_Witness ==
    /\ mounted = "deposit"
    /\ dargs.version = "ERC-4626"
    /\ dargs.options # Undefined
    /\ ~dargs.options[1].useRouter
    /\ dargs.options[1].routerAddress = "router"
    /\ \E c \in Calls :
        /\ dcall[c].tx # NoTx
        /\ dcall[c].tx[1].fn = "multicall"
        /\ dcall[c].tx[1].to = "router"

====
